---- MODULE Spec2Model ----
(***************************************************************************)
(* azure-pipelines-mcp: the resilient fetch layer (HttpClient over         *)
(* CacheService), the single-task lookup (handleGetTaskReference) and the  *)
(* task search (handleSearchPipelineTasks).                                *)
(*                                                                         *)
(* Execution is single-threaded and cooperative.  One action of this       *)
(* model is one macrotask of the event loop: a tool call arriving, a       *)
(* network attempt being answered (or cut off by its deadline timer), a    *)
(* retry timer firing.  The action runs the awaiting code up to its next   *)
(* network request or timer, as the microtask queue does.                  *)
(***************************************************************************)
EXTENDS Integers, Sequences, FiniteSets, TLC

\* ------------------------------------------------------------------ bounds
\* retries is drawn from 1..MaxRetries (the attempt budget is configured positive)
MaxRetries == 3
\* how many times the wall clock advances in a behaviour
MaxTicks == 2
\* the largest attempt budget of the specification of the waits: with 4 the
\* waits after attempts 1, 2 and 3 are seen, and the third tells a doubling
\* delay from one that grows by a constant
MaxBudget == 4

\* ------------------------------------------------------- program constants
DEFAULT_RETRIES == 3

DEFAULT_RETRY_DELAY == 1000
DEFAULT_CACHE_TTL_MS == 60 * 60 * 1000
DEFAULT_TTL_MS == 60 * 60 * 1000
TASK_REFERENCE_CACHE_TTL_MS == 24 * 60 * 60 * 1000

\* JavaScript's undefined and NaN where a number is expected
undefined == 0 - 1
NaN == 0 - 2

VARIABLES
    now,      \* Date.now(), in ms
    ticks,    \* how often the clock has advanced
    cache,    \* CacheService.cache: Map<string, CacheEntry>, key -> [data, expiresAt]
    retries,  \* HttpClient.retries
    creds,    \* whether AZURE_DEVOPS_ORG and AZURE_DEVOPS_PAT are both set
    world,    \* what the servers publish: the task index and the task inventory
    procs,    \* the calls in progress: caller -> its position, locals and result
    lastSet,  \* of the direct CacheService calls: key -> what set stored last, when and with which ttl
    invalidated,  \* the urls invalidated or cleared with no fetch called for them since
    delivered  \* of the repeated lookups: identifier -> when its last record was handed to the client

vars == <<now, ticks, cache, retries, creds, world, procs, lastSet, invalidated, delivered>>

\* the callers whose calls may overlap
Procs == {"p1", "p2"}

\* the caller of the specifications in which one call runs at a time
Callers == {"p1"}

\* ------------------------------------------------------------------- urls
TASK_REFERENCE_BASE_URL == "https://raw.githubusercontent.com/MicrosoftDocs/azure-devops-yaml-schema/main/task-reference/"

Url(base, path) == [base |-> base, path |-> path]

TASK_INDEX_URL == Url(TASK_REFERENCE_BASE_URL, "index.md")

NoUrl == Url("", "")

\* the urls the fetch layer is called with directly
PlainUrls == {Url("https://example.com/", "cached")}

\* ----------------------------------------------------------------- bodies
NoBody == [kind |-> "undefined"]

Text(id) == [kind |-> "text", id |-> id]

PlainBodies == {Text("first"), Text("second")}

\* ----------------------------------------------------------------- errors
NoErr == [name |-> "none"]

Err(name, message, status, retryAfter, cause) ==
    [name |-> name, message |-> message, status |-> status,
     retryAfter |-> retryAfter, cause |-> cause]

NotFoundError == Err("NotFoundError", "Resource not found", 404, undefined, NoErr)

RateLimitError(retryAfter) ==
    Err("RateLimitError", "Rate limit exceeded", 429, retryAfter, NoErr)

TimeoutError == Err("TimeoutError", "Request timeout", 0, undefined, NoErr)

HttpClientError(message, status, cause) ==
    Err("HttpClientError", message, status, undefined, cause)

\* ----------------------------------------------------- the network's answers
\* Retry-After header values: absent (null), or a string of characters
NoHeader == <<"null">>

RetryAfterHeaders == {NoHeader, <<"0">>, <<"2">>, <<"1", "0">>, <<"2", "x">>, <<"x">>}

Digits == {"0", "1", "2", "3", "4", "5", "6", "7", "8", "9"}

DigitValue(c) ==
    CASE c = "0" -> 0 [] c = "1" -> 1 [] c = "2" -> 2 [] c = "3" -> 3
      [] c = "4" -> 4 [] c = "5" -> 5 [] c = "6" -> 6 [] c = "7" -> 7
      [] c = "8" -> 8 [] c = "9" -> 9

\* parseInt(s, 10) on a string without sign or leading blanks: the value of the
\* longest prefix of digits, NaN when that prefix is empty
RECURSIVE ParseDigits(_, _, _)
ParseDigits(s, i, acc) ==
    IF i > Len(s) \/ s[i] \notin Digits
    THEN acc
    ELSE ParseDigits(s, i + 1, acc * 10 + DigitValue(s[i]))

parseInt(s) ==
    IF Len(s) = 0 \/ s[1] \notin Digits THEN NaN ELSE ParseDigits(s, 1, 0)

\* what one network attempt ends with: an HTTP response, a rejected request
\* (also a body read that breaks off), or the deadline timer aborting it
Response(status, header, body) ==
    [type |-> "response", status |-> status, header |-> header, body |-> body]

NetworkFailure == [type |-> "network_error", status |-> 0, header |-> NoHeader, body |-> NoBody]

Aborted == [type |-> "abort", status |-> 0, header |-> NoHeader, body |-> NoBody]

NoOutcome == [type |-> "none", status |-> 0, header |-> NoHeader, body |-> NoBody]

FailureOutcomes ==
    {Response(s, NoHeader, NoBody) : s \in {404, 500, 503}}
        \cup {Response(429, h, NoBody) : h \in RetryAfterHeaders}
        \cup {NetworkFailure, Aborted}

\* ----------------------------------------------------------- CacheService
ExpiredAtDeadline(entry) == now >= entry.expiresAt

\* cache.ts get: the lazy cleanup test
Expired(entry) == now > entry.expiresAt

\* a get that sweeps every expired entry out of the map
getSweeping(c, key) ==
    LET kept == [k \in {x \in DOMAIN c : ~Expired(c[x])} |-> c[k]]
    IN  [value |-> IF key \in DOMAIN kept THEN kept[key].data ELSE NoBody, cache |-> kept]

\* cache.ts get: [value, cache after the call]
get(c, key) ==
    IF key \notin DOMAIN c
    THEN [value |-> NoBody, cache |-> c]
    ELSE IF Expired(c[key])
         THEN [value |-> NoBody, cache |-> [k \in DOMAIN c \ {key} |-> c[k]]]
         ELSE [value |-> c[key].data, cache |-> c]

\* the cache of getDefaultCache(): new CacheService() without options
defaultTtlMs == DEFAULT_TTL_MS

\* ttlMs ?? this.defaultTtlMs
TtlOrDefault(ttlMs) == IF ttlMs # undefined THEN ttlMs ELSE defaultTtlMs

\* a set that stores every entry with the default ttl
setDefaultTtl(c, key, data, ttlMs) ==
    [k \in DOMAIN c \cup {key} |->
        IF k = key THEN [data |-> data, expiresAt |-> now + defaultTtlMs] ELSE c[k]]

\* cache.ts set; ttlMs is the ttl the caller passes, undefined when it passes none
set(c, key, data, ttlMs) ==
    [k \in DOMAIN c \cup {key} |->
        IF k = key THEN [data |-> data, expiresAt |-> now + TtlOrDefault(ttlMs)] ELSE c[k]]

\* cache.ts has: [value, cache after the call]
has(c, key) == [value |-> get(c, key).value # NoBody, cache |-> get(c, key).cache]

\* cache.ts delete: [value, cache after the call]
delete(c, key) == [value |-> key \in DOMAIN c, cache |-> [k \in DOMAIN c \ {key} |-> c[k]]]

\* cache.ts clear
clear(c) == <<>>

\* cache.ts size: the entries of the map, the expired ones included
size(c) == Cardinality(DOMAIN c)

\* --------------------------------------------------------------- HttpClient
\* the locals of one HttpClient.fetch call
IdleFetch ==
    [st |-> "idle", url |-> NoUrl, skipCache |-> FALSE, cacheTtlMs |-> undefined,
     attempt |-> 0, net |-> 0, waits |-> 0, delay |-> 0,
     value |-> NoBody, err |-> NoErr, lastError |-> NoErr]

RetryAfterDropped(header) == undefined

\* doFetch: the retryAfter it gives the RateLimitError; headers.get returns
\* null for an absent header, and the empty string is falsy as null is
RetryAfterOf(header) ==
    IF header # NoHeader /\ Len(header) > 0 THEN parseInt(header) ELSE undefined

\* doFetch, from the answer to its request on: [ok, text, err]
doFetch(o) ==
    IF o.type = "abort" THEN [ok |-> FALSE, text |-> NoBody, err |-> TimeoutError]
    ELSE IF o.type = "network_error"
    THEN [ok |-> FALSE, text |-> NoBody,
          err |-> HttpClientError("Network error", 0, [name |-> "TypeError"])]
    ELSE IF o.status = 404 THEN [ok |-> FALSE, text |-> NoBody, err |-> NotFoundError]
    ELSE IF o.status = 429
    THEN [ok |-> FALSE, text |-> NoBody,
          err |-> RateLimitError(RetryAfterOf(o.header))]
    ELSE IF ~(200 <= o.status /\ o.status <= 299)
    THEN [ok |-> FALSE, text |-> NoBody, err |-> HttpClientError("HTTP status", o.status, NoErr)]
    ELSE [ok |-> TRUE, text |-> o.body, err |-> NoErr]

\* 2^n
RECURSIVE Pow2(_)
Pow2(n) == IF n <= 0 THEN 1 ELSE 2 * Pow2(n - 1)

\* a default wait after a rate-limited attempt that doubles with every attempt
RateLimitDelayDoubling(retryAfter, attempt) ==
    IF retryAfter # undefined /\ retryAfter # NaN /\ retryAfter # 0
    THEN retryAfter * 1000
    ELSE DEFAULT_RETRY_DELAY * Pow2(attempt)

\* the wait after a rate-limited attempt
RateLimitDelay(retryAfter, attempt) ==
    IF retryAfter # undefined /\ retryAfter # NaN /\ retryAfter # 0
    THEN retryAfter * 1000
    ELSE DEFAULT_RETRY_DELAY * attempt * 2

\* a wait that grows by one base delay with every attempt
BackoffDelayLinear(attempt) == DEFAULT_RETRY_DELAY * attempt

\* the wait after any other retryable failure
BackoffDelay(attempt) == DEFAULT_RETRY_DELAY * Pow2(attempt - 1)

LoopGuardOneMore(attempt) == attempt <= retries + 1

\* fetchWithRetry: the condition of the for loop
LoopGuard(attempt) == attempt <= retries

AggregateErrorNoCause(f) == HttpClientError("Failed after attempts", 0, NoErr)

\* fetchWithRetry: the error raised after the loop
AggregateError(f) == HttpClientError("Failed after attempts", 0, f.lastError)

\* fetchWithRetry: the head of the for loop with the given attempt number; it
\* sends the attempt's request, or leaves the loop and raises the aggregate error
LoopHead(f, attempt) ==
    IF LoopGuard(attempt)
    THEN [f EXCEPT !.st = "inflight", !.attempt = attempt, !.net = @ + 1]
    ELSE [f EXCEPT !.st = "threw", !.attempt = attempt, !.err = AggregateError(f)]

NoRetryNotFoundOnly(err) == err.name = "NotFoundError"

\* fetchWithRetry: the errors that are raised again at once
NoRetry(err) == err.name \in {"NotFoundError", "TimeoutError"}

\* fetchWithRetry: one pass of the loop body from doFetch's result r on
fetchWithRetry(f, r) ==
    IF r.ok THEN [f EXCEPT !.st = "returned", !.value = r.text]
    ELSE LET g == [f EXCEPT !.lastError = r.err] IN
         IF NoRetry(r.err)
         THEN [g EXCEPT !.st = "threw", !.err = r.err]
         ELSE IF r.err.name = "RateLimitError"
         THEN IF f.attempt < retries
              THEN [g EXCEPT !.st = "waiting", !.waits = @ + 1,
                             !.delay = RateLimitDelay(r.err.retryAfter, f.attempt)]
              ELSE [g EXCEPT !.st = "threw", !.err = r.err]
         ELSE IF f.attempt < retries
              THEN [g EXCEPT !.st = "waiting", !.waits = @ + 1,
                             !.delay = BackoffDelay(f.attempt)]
              ELSE LoopHead(g, f.attempt + 1)

\* a store that ignores the ttl of the call
StoreTtlDefault(f) == DEFAULT_CACHE_TTL_MS

\* the ttl HttpClient.fetch stores under
StoreTtl(f) == IF f.cacheTtlMs # undefined THEN f.cacheTtlMs ELSE DEFAULT_CACHE_TTL_MS

\* a fetch that looks in the cache whatever its options say
fetchCacheFirst(m, url, options) ==
    LET f0 == [IdleFetch EXCEPT !.url = url, !.skipCache = options.skipCache,
                                !.cacheTtlMs = options.cacheTtlMs]
        got == get(m.cache, url)
    IN  IF got.value # NoBody
        THEN [p |-> [m.p EXCEPT !.f = [f0 EXCEPT !.st = "returned", !.value = got.value]],
              cache |-> got.cache]
        ELSE [p |-> [m.p EXCEPT !.f = LoopHead(f0, 1)], cache |-> got.cache]

\* a fetch that never looks in the cache
fetchNoLookup(m, url, options) ==
    LET f0 == [IdleFetch EXCEPT !.url = url, !.skipCache = options.skipCache,
                                !.cacheTtlMs = options.cacheTtlMs]
    IN  [p |-> [m.p EXCEPT !.f = LoopHead(f0, 1)], cache |-> m.cache]

\* HttpClient.fetch up to its await: the cache lookup, then the first attempt.
\* m = [p |-> the caller's record, cache |-> the cache]
fetch(m, url, options) ==
    LET f0 == [IdleFetch EXCEPT !.url = url, !.skipCache = options.skipCache,
                                !.cacheTtlMs = options.cacheTtlMs]
        got == get(m.cache, url)
    IN  IF ~options.skipCache /\ got.value # NoBody
        THEN [p |-> [m.p EXCEPT !.f = [f0 EXCEPT !.st = "returned", !.value = got.value]],
              cache |-> got.cache]
        ELSE [p |-> [m.p EXCEPT !.f = LoopHead(f0, 1)],
              cache |-> IF options.skipCache THEN m.cache ELSE got.cache]

\* a fetch that stores whatever it settles with, a failure included
fetchResumeStoring(m, o) ==
    LET f1 == fetchWithRetry(m.p.f, doFetch(o)) IN
    [p |-> [m.p EXCEPT !.f = f1],
     cache |-> IF f1.st \in {"returned", "threw"}
               THEN set(m.cache, f1.url, f1.value, StoreTtl(f1))
               ELSE m.cache]

\* a fetch that stores its text only where the cache holds no entry
fetchResumeKeepingEntry(m, o) ==
    LET f1 == fetchWithRetry(m.p.f, doFetch(o)) IN
    [p |-> [m.p EXCEPT !.f = f1],
     cache |-> IF f1.st = "returned" /\ f1.url \notin DOMAIN m.cache
               THEN set(m.cache, f1.url, f1.value, StoreTtl(f1))
               ELSE m.cache]

\* HttpClient.fetch after its await: the attempt's answer runs the retry loop,
\* and a response text is stored in the cache before it is returned
fetchResume(m, o) ==
    LET f1 == fetchWithRetry(m.p.f, doFetch(o)) IN
    [p |-> [m.p EXCEPT !.f = f1],
     cache |-> IF f1.st = "returned"
               THEN set(m.cache, f1.url, f1.value, StoreTtl(f1))
               ELSE m.cache]

\* delay(ms) has elapsed: the loop goes on with the next attempt
fetchAfterDelay(m) ==
    [p |-> [m.p EXCEPT !.f = LoopHead(m.p.f, m.p.f.attempt + 1)], cache |-> m.cache]

Settled(f) == f.st \in {"returned", "threw"}

\* ------------------------------------------------------------- identifiers
\* the longest task identifier a caller passes
MaxLen == 4

\* the characters identifiers are made of: an upper and a lower case letter,
\* a digit, the separator, and a character outside every class of the pattern
Alphabet == {"A", "a", "1", "@", "\n"}

RECURSIVE StringsUpTo(_)
StringsUpTo(n) ==
    IF n = 0 THEN {<<>>}
    ELSE LET S == StringsUpTo(n - 1) IN S \cup {Append(s, c) : s \in S, c \in Alphabet}

Identifiers == StringsUpTo(MaxLen)

UpperLetters == <<"A", "B", "C", "D", "E", "F", "G", "H", "I", "J", "K", "L", "M",
                  "N", "O", "P", "Q", "R", "S", "T", "U", "V", "W", "X", "Y", "Z">>

LowerLetters == <<"a", "b", "c", "d", "e", "f", "g", "h", "i", "j", "k", "l", "m",
                  "n", "o", "p", "q", "r", "s", "t", "u", "v", "w", "x", "y", "z">>

Range(s) == {s[i] : i \in 1..Len(s)}

\* String.prototype.toLowerCase on a sequence of characters
toLowerCase(s) ==
    [i \in 1..Len(s) |->
        IF s[i] \in Range(UpperLetters)
        THEN LowerLetters[CHOOSE k \in 1..Len(UpperLetters) : UpperLetters[k] = s[i]]
        ELSE s[i]]

\* the character class [A-Za-z0-9_-]
NameChars == Range(UpperLetters) \cup Range(LowerLetters) \cup Digits \cup {"_", "-"}

\* the first position from i on whose character is outside cls (Len(s) + 1 if none)
RECURSIVE RunEnd(_, _, _)
RunEnd(s, i, cls) ==
    IF i <= Len(s) /\ s[i] \in cls THEN RunEnd(s, i + 1, cls) ELSE i

NoMatch == [ok |-> FALSE, name |-> <<>>, version |-> <<>>]

TaskNameMatchUnanchored(s) ==
    LET a == RunEnd(s, 1, NameChars)
        d == RunEnd(s, a + 1, Digits)
    IN  IF a > 1 /\ a <= Len(s) /\ s[a] = "@" /\ d > a + 1
        THEN [ok |-> TRUE, name |-> SubSeq(s, 1, a - 1), version |-> SubSeq(s, a + 1, d - 1)]
        ELSE NoMatch

\* taskName.match(/^([A-Za-z0-9_-]+)@(\d+)$/): the run of name characters
\* from the start, "@", then a run of digits that reaches the end of the string
TaskNameMatch(s) ==
    LET a == RunEnd(s, 1, NameChars)
        d == RunEnd(s, a + 1, Digits)
    IN  IF a > 1 /\ a <= Len(s) /\ s[a] = "@" /\ d > a + 1 /\ d = Len(s) + 1
        THEN [ok |-> TRUE, name |-> SubSeq(s, 1, a - 1), version |-> SubSeq(s, a + 1, Len(s))]
        ELSE NoMatch

\* `${n}` for a natural number n
RECURSIVE NatToString(_)
NatToString(n) ==
    LET d == <<"0", "1", "2", "3", "4", "5", "6", "7", "8", "9">>[(n % 10) + 1]
    IN  IF n < 10 THEN <<d>> ELSE Append(NatToString(n \div 10), d)

\* ---------------------------------------------------------- the task index
\* The index document line by line.  A line is a level-2 heading (it matches
\* /^##\s+(.+?)\s*$/i, text is the captured heading), a task row (it matches
\* /^\|\s*\*\*(.+?)\*\*.*?\|(.+?)\|$/; displayName and description are the
\* trimmed captures, links its [Name@Version](path) occurrences in order), or
\* any other line.  Texts are sequences of characters.
Heading(text) ==
    [t |-> "h2", text |-> text, displayName |-> <<>>, description |-> <<>>, links |-> <<>>]

Row(displayName, description, links) ==
    [t |-> "row", text |-> "", displayName |-> displayName,
     description |-> description, links |-> links]

OtherLine ==
    [t |-> "other", text |-> "", displayName |-> <<>>, description |-> <<>>, links |-> <<>>]

Link(fullName, path) == [fullName |-> fullName, path |-> path]

IndexDocument(lines) == [kind |-> "index", lines |-> lines]

\* toLowerCase on the heading texts that occur
HeadingLower(text) ==
    CASE text = "Build tasks" -> "build tasks"
      [] text = "BUILD TASKS" -> "build tasks"
      [] text = "Deploy Tasks" -> "deploy tasks"
      [] text = "Utility" -> "utility"
      [] text = "Build" -> "build"
      [] OTHER -> text

null == "null"

\* CATEGORY_MAPPING[categoryName]: the table is an object literal, so a name
\* it does not hold is looked up in Object.prototype, whose all-lower-case
\* properties are constructor and __proto__; any other name gives undefined,
\* which ?? turns into null
CATEGORY_MAPPING(categoryName) ==
    CASE categoryName = "build tasks" -> "build"
      [] categoryName = "deploy tasks" -> "deploy"
      [] categoryName = "package tasks" -> "package"
      [] categoryName = "test tasks" -> "test"
      [] categoryName = "tool tasks" -> "tool"
      [] categoryName = "utility tasks" -> "utility"
      [] categoryName \in {"build", "deploy", "package", "test", "tool", "utility"} -> categoryName
      [] categoryName = "constructor" -> "function Object() { [native code] }"
      [] categoryName = "__proto__" -> "[object Object]"
      [] OTHER -> null

RECURSIVE AddLinksKeepLast(_, _, _, _)
AddLinksKeepLast(map, line, currentCategory, i) ==
    IF i > Len(line.links) THEN map
    ELSE LET link == line.links[i]
             mt == TaskNameMatch(link.fullName)
             key == <<link.fullName, currentCategory>>
             task == [name |-> mt.name, displayName |-> line.displayName,
                      version |-> mt.version, fullName |-> link.fullName,
                      description |-> line.description, category |-> currentCategory,
                      documentationPath |-> link.path]
         IN  AddLinksKeepLast(IF ~mt.ok THEN map
                              ELSE IF \E j \in 1..Len(map) : map[j].key = key
                              THEN [j \in 1..Len(map) |->
                                       IF map[j].key = key THEN [key |-> key, value |-> task]
                                       ELSE map[j]]
                              ELSE Append(map, [key |-> key, value |-> task]),
                              line, currentCategory, i + 1)

\* parseTaskIndex: the while loop over the links of one row; map is tasksMap
\* in insertion order
RECURSIVE AddLinks(_, _, _, _)
AddLinks(map, line, currentCategory, i) ==
    IF i > Len(line.links) THEN map
    ELSE LET link == line.links[i]
             mt == TaskNameMatch(link.fullName)
             key == <<link.fullName, currentCategory>>
             task == [name |-> mt.name, displayName |-> line.displayName,
                      version |-> mt.version, fullName |-> link.fullName,
                      description |-> line.description, category |-> currentCategory,
                      documentationPath |-> link.path]
         IN  AddLinks(IF mt.ok /\ ~(\E j \in 1..Len(map) : map[j].key = key)
                      THEN Append(map, [key |-> key, value |-> task])
                      ELSE map,
                      line, currentCategory, i + 1)

\* parseTaskIndex: the for loop over the lines
RECURSIVE ScanLines(_, _, _, _)
ScanLines(lines, i, currentCategory, map) ==
    IF i > Len(lines) THEN map
    ELSE IF lines[i].t = "h2"
    THEN ScanLines(lines, i + 1, CATEGORY_MAPPING(HeadingLower(lines[i].text)), map)
    ELSE IF currentCategory = null \/ lines[i].t # "row"
    THEN ScanLines(lines, i + 1, currentCategory, map)
    ELSE ScanLines(lines, i + 1, currentCategory,
                   AddLinks(map, lines[i], currentCategory, 1))

parseTaskIndex(markdown) ==
    LET map == ScanLines(markdown.lines, 1, null, <<>>)
    IN  [j \in 1..Len(map) |-> map[j].value]

\* the index documents the documentation server may publish
IndexBodies ==
    {IndexDocument(<<OtherLine, Heading("Build tasks"),
                                     Row(<<"T">>, <<"b">>, <<Link(<<"A", "@", "1">>, "a-v1.md")>>)>>),
     IndexDocument(<<Heading("Build tasks"), OtherLine>>)}

\* ------------------------------------------------------ the task document
Markdown(description) == [kind |-> "markdown", description |-> description]

DocBodies == {Markdown(<<"d">>)}

\* parseTaskMarkdown; the regions are extracted by pattern matching and a
\* missing region gives an empty field, so it returns a record for every text
parseTaskMarkdown(markdown, name, version) ==
    [name |-> name, version |-> version, fullName |-> name \o <<"@">> \o version,
     description |-> IF markdown.kind = "markdown" THEN markdown.description ELSE <<>>,
     outputVariables |-> "parsed"]

\* ------------------------------------------------------------ the inventory
AZURE_DEVOPS_TASKS_URL ==
    Url("https://dev.azure.com/org/", "_apis/distributedtask/tasks?api-version=7.1")

TaskDefinition(name, major, friendlyName, description, category) ==
    [name |-> name, version |-> [major |-> major], friendlyName |-> friendlyName,
     description |-> description, category |-> category, helpMarkDown |-> "undefined"]

Json(value) == [kind |-> "json", value |-> value]

\* a 200 answer that is no JSON (a sign-in page): JSON.parse throws on it
NotJson == [kind |-> "html"]

ApiBodies ==
    {Json(<<TaskDefinition(<<"a">>, 11, <<"O">>, <<"o">>, "Build"),
            TaskDefinition(<<"A">>, 1, <<"I">>, <<"i">>, "undefined")>>),
     Json(<<>>),
     NotJson}

\* the servers of a specification that reads neither index nor inventory
NoWorld == [index |-> IndexDocument(<<>>), api |-> Json(<<>>)]

\* convertTaskDefinitionToReference
convertTaskDefinitionToReference(task) ==
    [name |-> task.name, version |-> NatToString(task.version.major),
     fullName |-> task.name \o <<"@">> \o NatToString(task.version.major),
     description |-> task.description, outputVariables |-> "empty"]

\* ------------------------------------------------------------------ callers
\* a caller: the operation it runs with its argument, where the operation
\* stands, its locals, its current fetch call, and what it ended with.
\* trace lists the sources it turned to in order, failed those whose fetch
\* threw, netUrls the urls it sent a request to; pre and preFresh record the cache entry of the url when fetch
\* was called and whether it was unexpired then, lastOutcome the last answer.
NoStub == [fullName |-> <<>>]

NoResult == [kind |-> "none"]

IdleProc ==
    [op |-> "none", pc |-> "idle", arg |-> <<>>, category |-> "undefined",
     name |-> <<>>, version |-> <<>>, taskInfo |-> NoStub,
     trace |-> <<>>, failed |-> {}, netUrls |-> {}, out |-> NoResult,
     f |-> IdleFetch,
     pre |-> NoBody, preFresh |-> FALSE, lastOutcome |-> NoOutcome,
     afterInvalidate |-> FALSE, overlapped |-> FALSE, joined |-> FALSE,
     since |-> undefined]

FetchOptionsSet ==
    [skipCache : BOOLEAN, cacheTtlMs : {undefined, TASK_REFERENCE_CACHE_TTL_MS}]

NoOptions == [skipCache |-> FALSE, cacheTtlMs |-> undefined]

\* the bodies a server may answer a request for url with
BodiesAt(url) ==
    IF url = TASK_INDEX_URL THEN {world.index}
    ELSE IF url = AZURE_DEVOPS_TASKS_URL THEN {world.api}
    ELSE IF url.base = TASK_REFERENCE_BASE_URL THEN DocBodies
    ELSE PlainBodies

Outcomes(url) == {Response(200, NoHeader, b) : b \in BodiesAt(url)} \cup FailureOutcomes

\* a tool handler calls fetch for the source pc names ("index", "doc", "api"):
\* the source is noted in the trace, and the url in netUrls when the call sends
\* a request
noteFetch(m, pc, url) ==
    [m EXCEPT !.p.pc = pc,
              !.p.trace = Append(@, pc),
              !.p.netUrls = IF m.p.f.net > 0 THEN @ \cup {url} ELSE @]

awaitFetch(m, pc, url, options) == noteFetch(fetch(m, url, options), pc, url)

\* what the operation does once its fetch call has settled, defined below
RECURSIVE Continue(_)

\* the handler resolves with the JSON text of value
Resolve(m, value) == [m EXCEPT !.p.pc = "done", !.p.out = value]

\* the handler's promise rejects with err
Reject(m, err) == [m EXCEPT !.p.pc = "done", !.p.out = [kind |-> "rejected", err |-> err]]

Record(reference) == [kind |-> "record", value |-> reference, url |-> NoUrl]

ErrorResult(error, url) == [kind |-> "error", error |-> error, url |-> url]

\* the error text for an identifier that does not match the pattern
InvalidFormat(taskName) ==
    <<"Invalid task format '", taskName,
      "'. Expected format: TaskName@Version (e.g., DotNetCoreCLI@2)">>

DocUrl(taskInfo) == Url(TASK_REFERENCE_BASE_URL, taskInfo.documentationPath)

\* findTaskInIndex after its fetch: the first stub whose fullName matches
findInIndex(indexMarkdown, fullName) ==
    LET allTasks == parseTaskIndex(indexMarkdown)
        hits == {i \in 1..Len(allTasks) :
                    toLowerCase(allTasks[i].fullName) = toLowerCase(fullName)}
    IN  IF hits = {} THEN NoStub
        ELSE allTasks[CHOOSE i \in hits : \A j \in hits : i <= j]

\* ------------------------- handleGetTaskReference with the inventory fallback
\* step 3: nothing was found
NothingFound(m) ==
    IF m.p.taskInfo = NoStub
    THEN Resolve(m, ErrorResult(<<"Task '", m.p.arg, "' not found in public index or organization.">>, NoUrl))
    ELSE Resolve(m, ErrorResult(<<"Documentation for task '", m.p.arg,
                                  "' not found in public docs or organization.">>,
                                DocUrl(m.p.taskInfo)))

\* getTaskDefinitions after its fetch: JSON.parse(response).value, or a throw
getTaskDefinitions(f) ==
    IF f.st = "returned" /\ f.value.kind = "json"
    THEN [ok |-> TRUE, value |-> f.value.value]
    ELSE [ok |-> FALSE, value |-> <<>>]

\* findTaskInOrganization from the settled getTaskDefinitions on; every error
\* is caught and gives null
AfterInventory(m) ==
    LET got == getTaskDefinitions(m.p.f)
        apiTasks == got.value
        hits == {i \in 1..Len(apiTasks) :
                    /\ toLowerCase(apiTasks[i].name) = toLowerCase(m.p.name)
                    /\ NatToString(apiTasks[i].version.major) = m.p.version}
    IN  IF got.ok /\ hits # {}
        THEN Resolve(m, Record(convertTaskDefinitionToReference(
                                   apiTasks[CHOOSE i \in hits : \A j \in hits : i <= j])))
        ELSE NothingFound(m)

\* step 2: findTaskInOrganization; new AzureDevOpsClient() throws without
\* credentials, inside the try
findTaskInOrganization(m) ==
    IF ~creds THEN NothingFound([m EXCEPT !.p.trace = Append(@, "api")])
    ELSE Continue(awaitFetch(m, "api", AZURE_DEVOPS_TASKS_URL, NoOptions))

AfterDocThenInventory(m) == findTaskInOrganization(m)

\* step 1, after the fetch of the task document
AfterDoc(m) ==
    IF m.p.f.st = "returned"
    THEN Resolve(m, Record(parseTaskMarkdown(m.p.f.value, m.p.name, m.p.version)))
    ELSE findTaskInOrganization(m)

\* step 1, if (taskInfo): the fetch of the task document
IfTaskInfo(m) ==
    IF m.p.taskInfo # NoStub
    THEN Continue(awaitFetch(m, "doc", DocUrl(m.p.taskInfo),
                             [skipCache |-> FALSE, cacheTtlMs |-> TASK_REFERENCE_CACHE_TTL_MS]))
    ELSE findTaskInOrganization(m)

\* step 1, after findTaskInIndex: an error of the index fetch is ignored
AfterIndex(m) ==
    IfTaskInfo([m EXCEPT !.p.taskInfo = IF m.p.f.st = "returned"
                                        THEN findInIndex(m.p.f.value, m.p.arg)
                                        ELSE NoStub])

\* handleGetTaskReference(taskName), the revision with the inventory fallback
handleGetTaskReference(m, taskName) ==
    LET taskMatch == TaskNameMatch(taskName)
        m0 == [m EXCEPT !.p.arg = taskName, !.p.name = taskMatch.name,
                        !.p.version = taskMatch.version]
    IN  IF ~taskMatch.ok
        THEN Resolve(m0, ErrorResult(InvalidFormat(taskName), NoUrl))
        ELSE Continue(awaitFetch(m0, "index", TASK_INDEX_URL, NoOptions))

\* ----------------------- handleGetTaskReference of tools/task-reference.ts
\* after the fetch of the task document
AfterDocDocsOnly(m) ==
    IF m.p.f.st = "returned"
    THEN Resolve(m, Record(parseTaskMarkdown(m.p.f.value, m.p.name, m.p.version)))
    ELSE IF m.p.f.err.name = "NotFoundError"
    THEN Resolve(m, ErrorResult(<<"Documentation for task '", m.p.arg, "' not found.">>,
                             DocUrl(m.p.taskInfo)))
    ELSE Reject(m, m.p.f.err)

\* if (!taskInfo) and the fetch of the task document
IfTaskInfoDocsOnly(m) ==
    IF m.p.taskInfo = NoStub
    THEN Resolve(m, ErrorResult(<<"Task '", m.p.arg,
                                  "' not found. Use search_pipeline_tasks to find available tasks.">>,
                                NoUrl))
    ELSE Continue(awaitFetch(m, "doc", DocUrl(m.p.taskInfo),
                             [skipCache |-> FALSE, cacheTtlMs |-> TASK_REFERENCE_CACHE_TTL_MS]))

\* after findTaskInIndex
AfterIndexDocsOnly(m) ==
    IF m.p.f.st = "threw"
    THEN IF m.p.f.err.name = "NotFoundError"
         THEN Resolve(m, ErrorResult(<<"Task index not found. The documentation source may be unavailable.">>,
                                     TASK_INDEX_URL))
         ELSE Reject(m, m.p.f.err)
    ELSE IfTaskInfoDocsOnly([m EXCEPT !.p.taskInfo = findInIndex(m.p.f.value, m.p.arg)])

\* handleGetTaskReference(taskName), the revision that reads the public docs only
handleGetTaskReferenceDocsOnly(m, taskName) ==
    LET taskMatch == TaskNameMatch(taskName)
        m0 == [m EXCEPT !.p.arg = taskName, !.p.name = taskMatch.name,
                        !.p.version = taskMatch.version]
    IN  IF ~taskMatch.ok
        THEN Resolve(m0, ErrorResult(InvalidFormat(taskName), NoUrl))
        ELSE Continue(awaitFetch(m0, "index", TASK_INDEX_URL, NoOptions))

\* ------------------------------------------------ handleSearchPipelineTasks
\* s.includes(q) on sequences of characters
includes(s, q) ==
    \E i \in 0..(Len(s) - Len(q)) : SubSeq(s, i + 1, i + Len(q)) = q

\* pascalToKebabCase, first replace: "-" between [a-z0-9] and [A-Z]
RECURSIVE KebabLowerUpper(_, _)
KebabLowerUpper(s, i) ==
    IF i > Len(s) THEN <<>>
    ELSE IF /\ i < Len(s)
            /\ s[i] \in Range(LowerLetters) \cup Digits
            /\ s[i + 1] \in Range(UpperLetters)
    THEN <<s[i], "-">> \o KebabLowerUpper(s, i + 1)
    ELSE <<s[i]>> \o KebabLowerUpper(s, i + 1)

\* pascalToKebabCase, second replace: "-" inside two capitals before [a-z];
\* a match consumes both capitals
RECURSIVE KebabUpperUpper(_, _)
KebabUpperUpper(s, i) ==
    IF i > Len(s) THEN <<>>
    ELSE IF /\ i + 2 <= Len(s)
            /\ s[i] \in Range(UpperLetters)
            /\ s[i + 1] \in Range(UpperLetters)
            /\ s[i + 2] \in Range(LowerLetters)
    THEN <<s[i], "-", s[i + 1]>> \o KebabUpperUpper(s, i + 2)
    ELSE <<s[i]>> \o KebabUpperUpper(s, i + 1)

pascalToKebabCase(str) == toLowerCase(KebabUpperUpper(KebabLowerUpper(str, 1), 1))

\* extractDocLink: the first [text](http...) link of helpMarkDown, if any
extractDocLink(helpMarkDown) == helpMarkDown

convertApiTaskToPipelineTask(apiTask) ==
    LET mapped == IF apiTask.category = "undefined" THEN null
                  ELSE CATEGORY_MAPPING(HeadingLower(apiTask.category))
        version == NatToString(apiTask.version.major)
        link == extractDocLink(apiTask.helpMarkDown)
    IN  [name |-> apiTask.name, displayName |-> apiTask.friendlyName,
         version |-> version, fullName |-> apiTask.name \o <<"@">> \o version,
         description |-> apiTask.description,
         category |-> IF mapped = null THEN "utility" ELSE mapped,
         documentationPath |->
             IF link # "undefined" THEN <<link>>
             ELSE <<"https://learn.microsoft.com/en-us/azure/devops/pipelines/tasks/reference/">>
                  \o pascalToKebabCase(apiTask.name) \o <<"-", "v">> \o version]

searchTasksAnyCategory(tasks, query, category) ==
    LET lowerQuery == toLowerCase(query) IN
    SelectSeq(tasks, LAMBDA task :
        \/ includes(toLowerCase(task.name), lowerQuery)
        \/ includes(toLowerCase(task.displayName), lowerQuery)
        \/ includes(toLowerCase(task.description), lowerQuery)
        \/ includes(toLowerCase(task.fullName), lowerQuery))

searchTasks(tasks, query, category) ==
    LET lowerQuery == toLowerCase(query) IN
    SelectSeq(tasks, LAMBDA task :
        /\ category = "undefined" \/ task.category = category
        /\ \/ includes(toLowerCase(task.name), lowerQuery)
           \/ includes(toLowerCase(task.displayName), lowerQuery)
           \/ includes(toLowerCase(task.description), lowerQuery)
           \/ includes(toLowerCase(task.fullName), lowerQuery))

SearchTasksResult(matchedTasks, query, category, source) ==
    [kind |-> "result", tasks |-> matchedTasks, totalCount |-> Len(matchedTasks),
     query |-> query, category |-> category, source |-> source]

\* step 2, after the fetch of the public index
AfterIndexSearch(m) ==
    IF m.p.f.st = "returned"
    THEN Resolve(m, SearchTasksResult(
                        searchTasks(parseTaskIndex(m.p.f.value), m.p.arg, m.p.category),
                        m.p.arg, m.p.category, "public-docs"))
    ELSE IF m.p.f.err.name = "NotFoundError"
    THEN Resolve(m, ErrorResult(<<"Task index not found. The documentation source may be unavailable.">>,
                                TASK_INDEX_URL))
    ELSE Reject(m, m.p.f.err)

\* step 2: the public index
SearchPublicDocs(m) == Continue(awaitFetch(m, "index", TASK_INDEX_URL, NoOptions))

AfterInventorySearchThenDocs(m) == SearchPublicDocs(m)

\* step 1, after getTaskDefinitions: any error is caught and step 2 follows
AfterInventorySearch(m) ==
    LET got == getTaskDefinitions(m.p.f) IN
    IF got.ok
    THEN LET pipelineTasks == [i \in 1..Len(got.value) |->
                                  convertApiTaskToPipelineTask(got.value[i])]
         IN  Resolve(m, SearchTasksResult(searchTasks(pipelineTasks, m.p.arg, m.p.category),
                                          m.p.arg, m.p.category, "azure-devops-api"))
    ELSE SearchPublicDocs(m)

\* handleSearchPipelineTasks(query, category); new AzureDevOpsClient() throws
\* without credentials, inside the try
handleSearchPipelineTasks(m, query, category) ==
    LET m0 == [m EXCEPT !.p.arg = query, !.p.category = category] IN
    IF ~creds THEN SearchPublicDocs([m0 EXCEPT !.p.trace = Append(@, "api")])
    ELSE Continue(awaitFetch(m0, "api", AZURE_DEVOPS_TASKS_URL, NoOptions))

\* a fetch that threw is noted in failed
noteFailed(m) ==
    IF m.p.f.st = "threw" THEN [m EXCEPT !.p.failed = @ \cup {m.p.pc}] ELSE m

\* the code after each await, by the operation and the place it stands at
Resume(m) ==
    IF m.p.op = "handleGetTaskReference"
    THEN CASE m.p.pc = "index" -> AfterIndex(m)
           [] m.p.pc = "doc" -> AfterDoc(m)
           [] m.p.pc = "api" -> AfterInventory(m)
    ELSE IF m.p.op = "handleGetTaskReferenceDocsOnly"
    THEN CASE m.p.pc = "index" -> AfterIndexDocsOnly(m)
           [] m.p.pc = "doc" -> AfterDocDocsOnly(m)
    ELSE IF m.p.op = "handleSearchPipelineTasks"
    THEN CASE m.p.pc = "api" -> AfterInventorySearch(m)
           [] m.p.pc = "index" -> AfterIndexSearch(m)
    ELSE [m EXCEPT !.p.pc = "done"]

\* an operation awaiting a fetch goes on when the fetch has settled
Continue(m) == IF Settled(m.p.f) THEN Resume(noteFailed(m)) ELSE m

\* the step of caller p ends in m
Commit(p, m) ==
    /\ procs' = [procs EXCEPT ![p] = m.p]
    /\ cache' = m.cache

\* ------------------------------------------------------------------ actions
Init ==
    /\ now = 0
    /\ ticks = 0
    /\ cache = <<>>
    /\ retries \in 1..MaxRetries
    /\ creds = FALSE
    /\ world = NoWorld
    /\ procs = [p \in Procs |-> IdleProc]
    /\ lastSet = <<>>
    /\ invalidated = {}
    /\ delivered = <<>>

\* caller q is between the call of fetch(url) and its return
Awaiting(q, url) == procs[q].op = "fetch" /\ procs[q].pc = "fetch" /\ procs[q].f.url = url

\* a call that joins the request of an awaiting call instead of sending its own
CommitCallCoalesced(p, url, m) ==
    /\ procs' = [q \in Procs |->
                    IF q = p
                    THEN IF \E r \in Procs \ {p} : Awaiting(r, url)
                         THEN [m.p EXCEPT !.f.net = 0]
                         ELSE m.p
                    ELSE IF Awaiting(q, url) THEN [procs[q] EXCEPT !.overlapped = TRUE]
                    ELSE procs[q]]
    /\ cache' = m.cache

\* the step in which caller p calls fetch(url) ends in m; the calls of url that
\* are awaiting an answer at that time overlap with it
CommitCall(p, url, m) ==
    /\ procs' = [q \in Procs |->
                    IF q = p THEN m.p
                    ELSE IF Awaiting(q, url) THEN [procs[q] EXCEPT !.overlapped = TRUE]
                    ELSE procs[q]]
    /\ cache' = m.cache

\* a caller calls httpClient.fetch(url, options)
CallFetch(p, url, options) ==
    /\ procs[p].pc \in {"idle", "done"}
    /\ LET p0 == [IdleProc EXCEPT !.op = "fetch", !.pc = "fetch",
                      !.pre = IF url \in DOMAIN cache THEN cache[url].data ELSE NoBody,
                      !.preFresh = url \in DOMAIN cache /\ now <= cache[url].expiresAt,
                      !.afterInvalidate = url \in invalidated,
                      !.overlapped = \E q \in Procs \ {p} : Awaiting(q, url)]
       IN  CommitCall(p, url, Continue(fetch([p |-> p0, cache |-> cache], url, options)))
    /\ invalidated' = invalidated \ {url}
    /\ UNCHANGED <<now, ticks, retries, creds, world, lastSet, delivered>>

\* the network answers the attempt in flight, or its deadline timer aborts it
Respond(p, o) ==
    /\ procs[p].f.st = "inflight"
    /\ o \in Outcomes(procs[p].f.url)
    /\ LET p0 == [procs[p] EXCEPT !.lastOutcome = o]
       IN  Commit(p, Continue(fetchResume([p |-> p0, cache |-> cache], o)))
    /\ UNCHANGED <<now, ticks, retries, creds, world, lastSet, invalidated, delivered>>

\* the retry timer of a waiting fetch fires
TimerFires(p) ==
    /\ procs[p].f.st = "waiting"
    /\ Commit(p, Continue(fetchAfterDelay([p |-> procs[p], cache |-> cache])))
    /\ UNCHANGED <<now, ticks, retries, creds, world, lastSet, invalidated, delivered>>

\* the steps the wall clock is observed to advance by
TickSteps == {1, DEFAULT_CACHE_TTL_MS}

Tick(d) ==
    /\ ticks < MaxTicks
    /\ now' = now + d
    /\ ticks' = ticks + 1
    /\ UNCHANGED <<cache, retries, creds, world, procs, lastSet, invalidated, delivered>>

Next ==
    \/ \E p \in Callers, u \in PlainUrls, o \in FetchOptionsSet : CallFetch(p, u, o)
    \/ \E p \in Callers, o \in FailureOutcomes \cup {Response(200, NoHeader, b) : b \in PlainBodies} :
           Respond(p, o)
    \/ \E p \in Callers : TimerFires(p)
    \/ \E d \in TickSteps : Tick(d)

Spec == Init /\ [][Next]_vars

\* the network answers every attempt or its deadline timer aborts it, and a
\* timer that was set fires
SpecFair ==
    /\ Spec
    /\ WF_vars(\E p \in Callers, o \in FailureOutcomes : Respond(p, o))
    /\ WF_vars(\E p \in Callers : TimerFires(p))

\* ------------------------------------------------- the single-task lookup
\* the answers of the network in the lookup: one of each class of failure
LookupFailures ==
    {Response(404, NoHeader, NoBody), Response(429, NoHeader, NoBody),
     Response(500, NoHeader, NoBody), Aborted}

\* the handlers use the default client, built without options
InitLookup ==
    /\ now = 0
    /\ ticks = 0
    /\ cache = <<>>
    /\ retries = DEFAULT_RETRIES
    /\ creds \in BOOLEAN
    /\ world \in [index : IndexBodies, api : ApiBodies]
    /\ procs = [p \in Procs |-> IdleProc]
    /\ lastSet = <<>>
    /\ invalidated = {}
    /\ delivered = <<>>

\* the MCP server calls handleGetTaskReference(taskName) with some string, the
\* revision with the inventory fallback
CallGetTaskReference(p) ==
    /\ procs[p].pc = "idle"
    /\ \E taskName \in Identifiers :
           LET p0 == [IdleProc EXCEPT !.op = "handleGetTaskReference"]
           IN  Commit(p, handleGetTaskReference([p |-> p0, cache |-> cache], taskName))
    /\ UNCHANGED <<now, ticks, retries, creds, world, lastSet, invalidated, delivered>>

\* the MCP server calls handleGetTaskReference(taskName) with some string, the
\* revision that reads the public docs only
CallGetTaskReferenceDocsOnly(p) ==
    /\ procs[p].pc = "idle"
    /\ \E taskName \in Identifiers :
           LET p0 == [IdleProc EXCEPT !.op = "handleGetTaskReferenceDocsOnly"]
           IN  Commit(p, handleGetTaskReferenceDocsOnly([p |-> p0, cache |-> cache], taskName))
    /\ UNCHANGED <<now, ticks, retries, creds, world, lastSet, invalidated, delivered>>

\* the tool callback hands the handler's text to the MCP client (a rejection
\* becomes the client's error) and the call is over
Deliver(p) ==
    /\ procs[p].pc = "done"
    /\ procs' = [procs EXCEPT ![p] = IdleProc]
    /\ UNCHANGED <<now, ticks, cache, retries, creds, world, lastSet, invalidated, delivered>>

NextLookup ==
    \/ \E p \in Callers : CallGetTaskReference(p)
    \/ \E p \in Callers : CallGetTaskReferenceDocsOnly(p)
    \/ \E p \in Callers,
          o \in LookupFailures \cup
                {Response(200, NoHeader, b) : b \in IndexBodies \cup DocBodies \cup ApiBodies} :
           Respond(p, o)
    \/ \E p \in Callers : TimerFires(p)
    \/ \E p \in Callers : Deliver(p)

SpecLookup == InitLookup /\ [][NextLookup]_vars


\* -------------------------------------------------------------- the search
Queries == {<<>>, <<"a">>, <<"T">>, <<"@", "1">>, <<"z">>}

Categories == {"undefined", "build", "utility"}

\* the MCP server calls handleSearchPipelineTasks(query, category)
CallSearchPipelineTasks(p, query, category) ==
    /\ procs[p].pc = "idle"
    /\ LET p0 == [IdleProc EXCEPT !.op = "handleSearchPipelineTasks"]
       IN  Commit(p, handleSearchPipelineTasks([p |-> p0, cache |-> cache], query, category))
    /\ UNCHANGED <<now, ticks, retries, creds, world, lastSet, invalidated, delivered>>

NextSearch ==
    \/ \E p \in Callers, query \in Queries, category \in Categories :
           CallSearchPipelineTasks(p, query, category)
    \/ \E p \in Callers,
          o \in LookupFailures \cup
                {Response(200, NoHeader, b) : b \in IndexBodies \cup ApiBodies} :
           Respond(p, o)
    \/ \E p \in Callers : TimerFires(p)
    \/ \E p \in Callers : Deliver(p)

SpecSearch == InitLookup /\ [][NextSearch]_vars

\* ------------------------------------------------------ the pure functions
\* the longest document, in lines, that parseTaskIndex is given
MaxLines == 4

\* the lines documents are made of: a recognised heading, the same heading
\* in another spelling, a second recognised heading, a heading that is no
\* category, a heading that names a property of Object.prototype, two task
\* rows that share a link name, and a line that is neither
DocumentLines ==
    {Heading("Build tasks"), Heading("Deploy Tasks"), Heading("Other"),
     Heading("constructor"),
     Row(<<"T">>, <<"b">>, <<Link(<<"A", "@", "1">>, "a-v1.md")>>),
     Row(<<"U">>, <<"c">>, <<Link(<<"A", "@", "1">>, "a2.md"), Link(<<"B", "@", "2">>, "b-v2.md"),
                             Link(<<"A", "@", "1">>, "a3.md")>>),
     OtherLine}

RECURSIVE LinesUpTo(_)
LinesUpTo(n) ==
    IF n = 0 THEN {<<>>}
    ELSE LET S == LinesUpTo(n - 1) IN S \cup {Append(s, l) : s \in S, l \in DocumentLines}

Documents == {IndexDocument(lines) : lines \in LinesUpTo(MaxLines)}

\* a test or a handler calls parseTaskIndex(markdown) with some document
CallParseTaskIndex(p) ==
    /\ procs[p].pc = "idle"
    /\ \E markdown \in Documents :
           procs' = [procs EXCEPT ![p] =
                        [IdleProc EXCEPT !.op = "parseTaskIndex", !.pc = "done",
                                         !.arg = markdown,
                                         !.out = [kind |-> "list",
                                                  value |-> parseTaskIndex(markdown)]]]
    /\ UNCHANGED <<now, ticks, cache, retries, creds, world, lastSet, invalidated, delivered>>

\* the longest list of tasks searchTasks is given
MaxTasks == 3

PipelineTask(name, displayName, version, description, category) ==
    [name |-> name, displayName |-> displayName, version |-> version,
     fullName |-> name \o <<"@">> \o version, description |-> description,
     category |-> category, documentationPath |-> "t.md"]

\* tasks that a query can match in the name, in the display name only, in the
\* description only, and a second task of the first one's text in another
\* category
TaskPool ==
    {PipelineTask(<<"A", "b">>, <<"X">>, <<"1">>, <<"y">>, "build"),
     PipelineTask(<<"c">>, <<"a", "B">>, <<"2">>, <<"y">>, "utility"),
     PipelineTask(<<"d">>, <<"x">>, <<"1">>, <<"A", "B">>, "build"),
     PipelineTask(<<"A", "b">>, <<"X">>, <<"1">>, <<"y">>, "deploy")}

RECURSIVE TasksUpTo(_)
TasksUpTo(n) ==
    IF n = 0 THEN {<<>>}
    ELSE LET S == TasksUpTo(n - 1) IN S \cup {Append(s, t) : s \in S, t \in TaskPool}

TaskLists == TasksUpTo(MaxTasks)

SearchQueries ==
    {<<>>, <<"a", "b">>, <<"A", "B">>, <<"b", "@", "1">>, <<"Y">>, <<"z">>}

\* a test or a handler calls searchTasks(tasks, query, category)
CallSearchTasks(p) ==
    /\ procs[p].pc = "idle"
    /\ \E tasks \in TaskLists, query \in SearchQueries, category \in Categories :
           procs' = [procs EXCEPT ![p] =
                        [IdleProc EXCEPT !.op = "searchTasks", !.pc = "done",
                                         !.arg = query, !.category = category,
                                         !.pre = [kind |-> "list", value |-> tasks],
                                         !.out = [kind |-> "list",
                                                  value |-> searchTasks(tasks, query, category)]]]
    /\ UNCHANGED <<now, ticks, cache, retries, creds, world, lastSet, invalidated, delivered>>

NextFunctions ==
    \/ \E p \in Callers : CallParseTaskIndex(p)
    \/ \E p \in Callers : CallSearchTasks(p)
    \/ \E p \in Callers : Deliver(p)

SpecFunctions == Init /\ [][NextFunctions]_vars

\* ------------------------------------------------- the syntax of a task
\* a task document as the list of its lines
SYNTAX_OPEN == "<!-- :::syntax::: -->"
SYNTAX_END == "<!-- :::syntax-end::: -->"
\* the fence lines; FENCE stands for the line of three backticks
YAML_FENCE == "FENCE yaml"
TEXT_FENCE == "FENCE text"
FENCE == "FENCE"

\* the lines that hold three backticks in a row
FenceLines == {YAML_FENCE, TEXT_FENCE, FENCE}

RECURSIVE trimLines(_)
\* String.trim on the captured text: blank lines at either end go
trimLines(lines) ==
    IF lines = <<>> THEN lines
    ELSE IF Head(lines) = "" THEN trimLines(Tail(lines))
    ELSE IF lines[Len(lines)] = "" THEN trimLines(SubSeq(lines, 1, Len(lines) - 1))
    ELSE lines

Least(S) == CHOOSE i \in S : \A j \in S : i <= j

\* the first match of opening ... lazily up to the nearest closing line:
\* <<k, l>> with k the first line of opens that has a line of closes after it
\* and l the first line of closes after k, or <<>> when there is none
LazyMatch(lines, opens, closes) ==
    LET starts == {k \in 1..Len(lines) :
                      lines[k] \in opens /\ \E l \in (k + 1)..Len(lines) : lines[l] \in closes}
    IN  IF starts = {} THEN <<>>
        ELSE LET k == Least(starts)
             IN  <<k, Least({l \in (k + 1)..Len(lines) : lines[l] \in closes})>>

\* parseSyntax(markdown): the text of the first yaml block of the syntax
\* region, or undefined
parseSyntax(markdown) ==
    LET syntaxSection == LazyMatch(markdown, {SYNTAX_OPEN}, {SYNTAX_END}) IN
    IF syntaxSection = <<>> THEN NoBody
    ELSE LET section == SubSeq(markdown, syntaxSection[1] + 1, syntaxSection[2] - 1)
             yamlMatch == LazyMatch(section, {YAML_FENCE}, FenceLines)
         IN  IF yamlMatch = <<>> THEN NoBody
             ELSE [kind |-> "text",
                   value |-> trimLines(SubSeq(section, yamlMatch[1] + 1, yamlMatch[2] - 1))]

\* the most blocks in one variant, and the most variants in a syntax region
MaxBlocks == 2
MaxVariants == 2

\* what a variant can hold: a yaml block, a block of another language, prose
BlockKinds == {"yaml", "text", "prose"}

RECURSIVE BlocksUpTo(_)
BlocksUpTo(n) ==
    IF n = 0 THEN {<<>>}
    ELSE LET S == BlocksUpTo(n - 1) IN S \cup {Append(s, b) : s \in S, b \in BlockKinds}

RECURSIVE VariantsUpTo(_)
VariantsUpTo(n) ==
    IF n = 0 THEN {<<>>}
    ELSE LET S == VariantsUpTo(n - 1)
         IN  S \cup {Append(s, v) : s \in S, v \in BlocksUpTo(MaxBlocks)}

\* the code line written in the blocks of the v-th variant
CodeOf(v) == <<"code 1", "code 2", "code 3", "code 4">>[v]

\* the lines of one block of the v-th variant
BlockLines(kind, v) ==
    CASE kind = "yaml" -> <<YAML_FENCE, CodeOf(v), "", FENCE>>
      [] kind = "text" -> <<TEXT_FENCE, CodeOf(v), FENCE>>
      [] OTHER -> <<"prose">>

RECURSIVE Flatten(_, _)
Flatten(blocks, v) ==
    IF blocks = <<>> THEN <<>>
    ELSE BlockLines(Head(blocks), v) \o Flatten(Tail(blocks), v)

RECURSIVE VariantLines(_, _)
\* the variants from the v-th on, each between its moniker lines
VariantLines(variants, v) ==
    IF v > Len(variants) THEN <<>>
    ELSE <<":::moniker range">> \o Flatten(variants[v], v) \o <<":::moniker-end">>
             \o VariantLines(variants, v + 1)

\* a task document whose syntax region holds the given variants, most
\* current first
TaskDocument(variants) ==
    <<"# title", SYNTAX_OPEN>> \o VariantLines(variants, 1) \o <<SYNTAX_END, "prose">>

SyntaxDocuments ==
    {TaskDocument(variants) : variants \in VariantsUpTo(MaxVariants)}
        \cup {<<"# title", "prose">>}

\* a test or the document parser calls parseSyntax(markdown)
CallParseSyntax(p) ==
    /\ procs[p].pc = "idle"
    /\ \E markdown \in SyntaxDocuments :
           procs' = [procs EXCEPT ![p] =
                        [IdleProc EXCEPT !.op = "parseSyntax", !.pc = "done",
                                         !.arg = markdown,
                                         !.out = parseSyntax(markdown)]]
    /\ UNCHANGED <<now, ticks, cache, retries, creds, world, lastSet, invalidated, delivered>>

NextSyntax ==
    \/ \E p \in Callers : CallParseSyntax(p)
    \/ \E p \in Callers : Deliver(p)

SpecSyntax == Init /\ [][NextSyntax]_vars

\* ----------------------------------------- overlapping calls and invalidation
\* HttpClient.invalidateCache(url)
InvalidateCache(url) ==
    /\ cache' = delete(cache, url).cache
    /\ invalidated' = invalidated \cup {url}
    /\ UNCHANGED <<now, ticks, retries, creds, world, procs, lastSet, delivered>>

\* HttpClient.clearCache()
ClearCache ==
    /\ cache' = clear(cache)
    /\ invalidated' = invalidated \cup PlainUrls
    /\ UNCHANGED <<now, ticks, retries, creds, world, procs, lastSet, delivered>>

\* the client of the overlapping calls allows one retry
InitOverlap ==
    /\ Init
    /\ retries = 2

\* the options of the overlapping calls
OverlapOptions == {o \in FetchOptionsSet : o.cacheTtlMs = undefined}

\* the answers to the overlapping calls: a text or a 500
OverlapOutcomes ==
    {Response(200, NoHeader, b) : b \in PlainBodies} \cup {Response(500, NoHeader, NoBody)}

NextOverlap ==
    \/ \E p \in Procs, u \in PlainUrls, o \in OverlapOptions : CallFetch(p, u, o)
    \/ \E p \in Procs, o \in OverlapOutcomes : Respond(p, o)
    \/ \E p \in Procs : TimerFires(p)
    \/ \E d \in TickSteps : Tick(d)
    \/ \E u \in PlainUrls : InvalidateCache(u)
    \/ ClearCache

SpecOverlap == InitOverlap /\ [][NextOverlap]_vars

\* ------------------------------------------- which of two requests is stored
\* the client of the racing calls makes one attempt
InitRace ==
    /\ Init
    /\ retries = 1

\* a caller calls httpClient.fetch(url, options); joined tells that the call
\* was made while another call of the url was awaiting its answer
CallFetchNoting(p, url, options) ==
    /\ procs[p].pc \in {"idle", "done"}
    /\ LET p0 == [IdleProc EXCEPT !.op = "fetch", !.pc = "fetch",
                      !.pre = IF url \in DOMAIN cache THEN cache[url].data ELSE NoBody,
                      !.preFresh = url \in DOMAIN cache /\ now <= cache[url].expiresAt,
                      !.afterInvalidate = url \in invalidated,
                      !.overlapped = \E q \in Procs \ {p} : Awaiting(q, url),
                      !.joined = \E q \in Procs \ {p} : Awaiting(q, url)]
       IN  CommitCall(p, url, Continue(fetch([p |-> p0, cache |-> cache], url, options)))
    /\ invalidated' = invalidated \ {url}
    /\ UNCHANGED <<now, ticks, retries, creds, world, lastSet, delivered>>

NextRace ==
    \/ \E p \in Procs, u \in PlainUrls, o \in OverlapOptions : CallFetchNoting(p, u, o)
    \/ \E p \in Procs, o \in OverlapOutcomes : Respond(p, o)
    \/ \E d \in TickSteps : Tick(d)
    \/ \E u \in PlainUrls : InvalidateCache(u)
    \/ ClearCache

SpecRace == InitRace /\ [][NextRace]_vars

\* ------------------------------------------- the CacheService called directly
CacheKeys == {"key1", "key2"}

\* the ttl a caller gives to set: none, or a number of ms
CacheTtls == {undefined, 0, 1}

\* what a synchronous call returned, and when
Returned(value) == [kind |-> "value", value |-> value, at |-> now]

CacheCall(p, op, key, value) ==
    procs' = [procs EXCEPT ![p] = [IdleProc EXCEPT !.op = op, !.pc = "done", !.arg = key,
                                                   !.out = Returned(value)]]

InitCache ==
    /\ Init
    /\ retries = DEFAULT_RETRIES

CacheSet(p, key, data, ttlMs) ==
    /\ cache' = set(cache, key, data, ttlMs)
    /\ lastSet' = [k \in DOMAIN lastSet \cup {key} |->
                      IF k = key THEN [data |-> data, at |-> now, ttlMs |-> ttlMs] ELSE lastSet[k]]
    /\ CacheCall(p, "cache.set", key, NoBody)
    /\ UNCHANGED <<now, ticks, retries, creds, world, invalidated, delivered>>

CacheGet(p, key) ==
    /\ cache' = get(cache, key).cache
    /\ CacheCall(p, "cache.get", key, get(cache, key).value)
    /\ UNCHANGED <<now, ticks, retries, creds, world, lastSet, invalidated, delivered>>

CacheHas(p, key) ==
    /\ cache' = has(cache, key).cache
    /\ CacheCall(p, "cache.has", key, has(cache, key).value)
    /\ UNCHANGED <<now, ticks, retries, creds, world, lastSet, invalidated, delivered>>

CacheDelete(p, key) ==
    /\ cache' = delete(cache, key).cache
    /\ lastSet' = [k \in DOMAIN lastSet \ {key} |-> lastSet[k]]
    /\ CacheCall(p, "cache.delete", key, delete(cache, key).value)
    /\ UNCHANGED <<now, ticks, retries, creds, world, invalidated, delivered>>

CacheClear(p) ==
    /\ cache' = clear(cache)
    /\ lastSet' = <<>>
    /\ CacheCall(p, "cache.clear", <<>>, NoBody)
    /\ UNCHANGED <<now, ticks, retries, creds, world, invalidated, delivered>>

CacheSize(p) ==
    /\ CacheCall(p, "cache.size", <<>>, size(cache))
    /\ UNCHANGED <<now, ticks, cache, retries, creds, world, lastSet, invalidated, delivered>>

NextCache ==
    \/ \E p \in Callers, key \in CacheKeys, data \in PlainBodies, ttlMs \in CacheTtls :
           CacheSet(p, key, data, ttlMs)
    \/ \E p \in Callers, key \in CacheKeys : CacheGet(p, key)
    \/ \E p \in Callers, key \in CacheKeys : CacheHas(p, key)
    \/ \E p \in Callers, key \in CacheKeys : CacheDelete(p, key)
    \/ \E p \in Callers : CacheClear(p)
    \/ \E p \in Callers : CacheSize(p)
    \/ \E d \in TickSteps : Tick(d)

SpecCache == InitCache /\ [][NextCache]_vars

\* ------------------------------------------------------ pipeline creation
\* encodeURIComponent on a sequence of characters: letters and digits stay,
\* the backslash of a folder path becomes %5C
RECURSIVE encodeURIComponent(_)
encodeURIComponent(s) ==
    IF Len(s) = 0 THEN <<>>
    ELSE (IF s[1] = "\\" THEN <<"%", "5", "C">> ELSE <<s[1]>>) \o encodeURIComponent(Tail(s))

DUMMY_PIPELINE_FOLDER ==
    <<"\\", "A", "I", "\\", "D", "u", "m", "m", "y", "V", "a", "l", "i", "d", "a", "t", "i", "o", "n",
      "P", "i", "p", "e", "l", "i", "n", "e">>

\* the folders createPipeline is called with: none, \ci and \v409
NoFolder == <<>>

Folders == {NoFolder, <<"\\", "c", "i">>, <<"\\", "v", "4", "0", "9">>}

\* buildUrl of the folder endpoint, from the organization's path on;
\* AzureDevOpsClient.ensureFolderExists passes the folder as a query parameter
FolderUrl(folderPath) ==
    <<"o", "r", "g", "/", "_", "a", "p", "i", "s", "/", "b", "u", "i", "l", "d", "/",
      "f", "o", "l", "d", "e", "r", "s", "?", "p", "a", "t", "h", "=">>
        \o encodeURIComponent(folderPath)
        \o <<"&", "a", "p", "i", "-", "v", "e", "r", "s", "i", "o", "n", "=", "7", ".", "1">>

\* and validate-pipeline.ts' ensureFolderExists as a path segment
DummyFolderUrl(folderPath) ==
    <<"o", "r", "g", "/", "_", "a", "p", "i", "s", "/", "b", "u", "i", "l", "d", "/",
      "f", "o", "l", "d", "e", "r", "s", "/">>
        \o encodeURIComponent(folderPath)
        \o <<"?", "a", "p", "i", "-", "v", "e", "r", "s", "i", "o", "n", "=", "7", ".", "1">>

\* response.statusText
StatusText(status) ==
    CASE status = 400 -> <<"B", "a", "d", " ", "R", "e", "q", "u", "e", "s", "t">>
      [] status = 403 -> <<"F", "o", "r", "b", "i", "d", "d", "e", "n">>
      [] status = 409 -> <<"C", "o", "n", "f", "l", "i", "c", "t">>
      [] status = 500 -> <<"S", "e", "r", "v", "e", "r", " ", "E", "r", "r", "o", "r">>
      [] OTHER -> <<"O", "K">>

\* the error bodies the folder endpoint answers with: none, the text of an
\* authorization error (TF400813) and a text that carries a request id
ErrorBodies ==
    {<<>>,
     <<"T", "F", "4", "0", "0", "8", "1", "3">>,
     <<"i", "d", "=", "4", "0", "9", "1">>}

\* handleResponse: the message of the Error raised for a response that is not
\* ok (the bodies of the model are short and are no HTML)
HttpErrorMessage(status, url, errorBody) ==
    <<"H", "T", "T", "P", " ">> \o NatToString(status) \o <<":", " ">> \o StatusText(status)
        \o <<" ", "-", " ">> \o url
        \o (IF Len(errorBody) > 0 THEN <<" ", "-", " ">> \o errorBody ELSE <<>>)

\* put / post from the answer to the request on: [ok, err]; the request that
\* is rejected or aborted raises fetch's own error, a good answer that is no
\* JSON raises in response.json()
handleResponse(o, url) ==
    IF o.type = "network_error"
    THEN [ok |-> FALSE, err |-> Err("TypeError", <<"f", "e", "t", "c", "h", " ", "f", "a", "i", "l", "e", "d">>,
                                    0, undefined, NoErr)]
    ELSE IF o.type = "abort"
    THEN [ok |-> FALSE, err |-> Err("AbortError", <<"a", "b", "o", "r", "t", "e", "d">>, 0, undefined, NoErr)]
    ELSE IF ~(200 <= o.status /\ o.status <= 299)
    THEN [ok |-> FALSE, err |-> Err("Error", HttpErrorMessage(o.status, url, o.body), o.status, undefined, NoErr)]
    ELSE IF o.body = NotJson
    THEN [ok |-> FALSE, err |-> Err("SyntaxError", <<"J", "S", "O", "N">>, 0, undefined, NoErr)]
    ELSE [ok |-> TRUE, err |-> NoErr]

\* AzureDevOpsClient.ensureFolderExists: the errors its catch block swallows
IgnoredByClient(err) ==
    includes(err.message, <<"4", "0", "9">>) \/ includes(err.message, <<"4", "0", "0">>)

\* validate-pipeline.ts ensureFolderExists: the errors its catch block swallows
IgnoredByDummy(err) == includes(err.message, <<"4", "0", "9">>)

Ignored(op, err) == IF op = "createPipeline" THEN IgnoredByClient(err) ELSE IgnoredByDummy(err)

\* the answers to the folder PUT
PutOutcomes ==
    {Response(200, NoHeader, b) : b \in {Json(<<>>), NotJson}}
        \cup {Response(s, NoHeader, b) : s \in {400, 403, 409, 500}, b \in ErrorBodies}
        \cup {NetworkFailure, Aborted}

\* the answers to the pipeline POST
PostOutcomes ==
    {Response(200, NoHeader, Json(<<>>)), Response(400, NoHeader, <<>>), NetworkFailure, Aborted}

PipelinesUrl == <<"o", "r", "g", "/", "_", "a", "p", "i", "s", "/", "p", "i", "p", "e", "l", "i", "n", "e", "s">>

\* the client is constructed with or without AZURE_DEVOPS_ORG and AZURE_DEVOPS_PAT
InitPipeline ==
    /\ now = 0
    /\ ticks = 0
    /\ cache = <<>>
    /\ retries = DEFAULT_RETRIES
    /\ creds \in BOOLEAN
    /\ world = NoWorld
    /\ procs = [p \in Procs |-> IdleProc]
    /\ lastSet = <<>>
    /\ invalidated = {}
    /\ delivered = <<>>

\* the caller's record when the request of the given method has been sent
Sent(q, method) == [q EXCEPT !.pc = method, !.trace = Append(@, method)]

\* the caller's record when the operation has raised err
Raised(q, err) == [q EXCEPT !.pc = "done", !.out = [kind |-> "rejected", err |-> err]]

\* createPipeline(name, repositoryId, yamlPath, folder, project); hasProject
\* tells whether the argument or AZURE_DEVOPS_PROJECT names a project
CallCreatePipeline(p, folder, hasProject) ==
    /\ procs[p].pc = "idle"
    /\ LET q == [IdleProc EXCEPT !.op = "createPipeline", !.arg = folder] IN
       procs' = [procs EXCEPT ![p] =
                    IF ~creds
                    THEN Raised(q, Err("Error", <<"c", "r", "e", "d", "s">>, 0, undefined, NoErr))
                    ELSE IF ~hasProject
                    THEN Raised(q, Err("Error", <<"p", "r", "o", "j", "e", "c", "t">>, 0, undefined, NoErr))
                    ELSE IF folder # NoFolder THEN Sent(q, "PUT")
                    ELSE Sent(q, "POST")]
    /\ UNCHANGED <<now, ticks, cache, retries, creds, world, lastSet, invalidated, delivered>>

\* createDummyPipeline(repositoryId, project, yamlPath)
CallCreateDummyPipeline(p) ==
    /\ procs[p].pc = "idle"
    /\ LET q == [IdleProc EXCEPT !.op = "createDummyPipeline", !.arg = DUMMY_PIPELINE_FOLDER] IN
       procs' = [procs EXCEPT ![p] =
                    IF ~creds
                    THEN Raised(q, Err("Error", <<"c", "r", "e", "d", "s">>, 0, undefined, NoErr))
                    ELSE Sent(q, "PUT")]
    /\ UNCHANGED <<now, ticks, cache, retries, creds, world, lastSet, invalidated, delivered>>

\* the url of the folder PUT of caller record q
PutUrl(q) == IF q.op = "createPipeline" THEN FolderUrl(q.arg) ELSE DummyFolderUrl(q.arg)

\* ensureFolderExists after its await: the folder PUT is answered with o
\* (kept in lastOutcome); the operation goes on to the POST or raises
AfterPut(q, r) ==
    IF r.ok \/ Ignored(q.op, r.err) THEN Sent(q, "POST") ELSE Raised(q, r.err)

AnswerPut(p, o) ==
    /\ procs[p].pc = "PUT"
    /\ procs' = [procs EXCEPT ![p] =
                    AfterPut([procs[p] EXCEPT !.lastOutcome = o], handleResponse(o, PutUrl(procs[p])))]
    /\ UNCHANGED <<now, ticks, cache, retries, creds, world, lastSet, invalidated, delivered>>

\* client.post after its await: the pipeline POST is answered with o
AfterPost(q, r) ==
    IF r.ok THEN [q EXCEPT !.pc = "done", !.out = [kind |-> "pipeline"]] ELSE Raised(q, r.err)

AnswerPost(p, o) ==
    /\ procs[p].pc = "POST"
    /\ procs' = [procs EXCEPT ![p] = AfterPost(procs[p], handleResponse(o, PipelinesUrl))]
    /\ UNCHANGED <<now, ticks, cache, retries, creds, world, lastSet, invalidated, delivered>>

NextPipeline ==
    \/ \E p \in Callers, folder \in Folders, hasProject \in BOOLEAN :
           CallCreatePipeline(p, folder, hasProject)
    \/ \E p \in Callers : CallCreateDummyPipeline(p)
    \/ \E p \in Callers, o \in PutOutcomes : AnswerPut(p, o)
    \/ \E p \in Callers, o \in PostOutcomes : AnswerPost(p, o)
    \/ \E p \in Callers : Deliver(p)

SpecPipeline == InitPipeline /\ [][NextPipeline]_vars

\* ------------------------------------------------ lookups repeated over time
\* the identifier that is looked up again and again
RevisitNames == {<<"A", "@", "1">>}

\* the clock is observed a millisecond, an index ttl or a document ttl later
RevisitSteps == {1, DEFAULT_CACHE_TTL_MS, TASK_REFERENCE_CACHE_TTL_MS}

\* the default client and an empty cache; the documentation server publishes
\* one of the index documents, and no credentials are set
InitRevisit ==
    /\ now = 0
    /\ ticks = 0
    /\ cache = <<>>
    /\ retries = DEFAULT_RETRIES
    /\ creds = FALSE
    /\ world \in {[NoWorld EXCEPT !.index = b] : b \in IndexBodies}
    /\ procs = [p \in Procs |-> IdleProc]
    /\ lastSet = <<>>
    /\ invalidated = {}
    /\ delivered = <<>>

\* the MCP server calls handleGetTaskReference(taskName) of tools/task-reference.ts
CallLookup(p, taskName) ==
    /\ procs[p].pc = "idle"
    /\ LET p0 == [IdleProc EXCEPT !.op = "handleGetTaskReferenceDocsOnly"]
       IN  Commit(p, handleGetTaskReferenceDocsOnly([p |-> p0, cache |-> cache], taskName))
    /\ UNCHANGED <<now, ticks, retries, creds, world, lastSet, invalidated, delivered>>

\* a caller calls httpClient.fetch(url, options) when its last call is over
CallFetchIdle(p, url, options) ==
    /\ procs[p].pc = "idle"
    /\ CallFetch(p, url, options)

NextRevisit ==
    \/ \E p \in Callers, taskName \in RevisitNames : CallLookup(p, taskName)
    \/ \E p \in Callers, u \in PlainUrls, o \in FetchOptionsSet : CallFetchIdle(p, u, o)
    \/ \E p \in Callers,
          o \in LookupFailures \cup
                {Response(200, NoHeader, b) : b \in IndexBodies \cup DocBodies \cup PlainBodies} :
           Respond(p, o)
    \/ \E p \in Callers : TimerFires(p)
    \/ \E p \in Callers : Deliver(p)
    \/ \E d \in RevisitSteps : Tick(d)

SpecRevisit == InitRevisit /\ [][NextRevisit]_vars

\* the MCP server calls handleGetTaskReference(taskName) once more; since is
\* the time since a record for taskName was last handed to the client
CallLookupAgain(p, taskName) ==
    /\ procs[p].pc = "idle"
    /\ taskName \in DOMAIN delivered
    /\ LET p0 == [IdleProc EXCEPT !.op = "handleGetTaskReferenceDocsOnly",
                                  !.since = now - delivered[taskName]]
       IN  Commit(p, handleGetTaskReferenceDocsOnly([p |-> p0, cache |-> cache], taskName))
    /\ UNCHANGED <<now, ticks, retries, creds, world, lastSet, invalidated, delivered>>

\* the tool callback hands the handler's text to the MCP client and the call
\* is over; the time at which a record is handed over is noted
DeliverNoting(p) ==
    /\ procs[p].pc = "done"
    /\ procs' = [procs EXCEPT ![p] = IdleProc]
    /\ delivered' = IF procs[p].out.kind = "record"
                    THEN [n \in DOMAIN delivered \cup {procs[p].arg} |->
                             IF n = procs[p].arg THEN now ELSE delivered[n]]
                    ELSE delivered
    /\ UNCHANGED <<now, ticks, cache, retries, creds, world, lastSet, invalidated>>

\* the clock advances; a result is handed over in the turn that produced it,
\* so no result is waiting when it does
TickBetween(d) ==
    /\ \A p \in Callers : procs[p].pc # "done"
    /\ Tick(d)

NextRepeat ==
    \/ \E p \in Callers, taskName \in RevisitNames : CallLookup(p, taskName)
    \/ \E p \in Callers, taskName \in RevisitNames : CallLookupAgain(p, taskName)
    \/ \E p \in Callers,
          o \in LookupFailures \cup
                {Response(200, NoHeader, b) : b \in IndexBodies \cup DocBodies} :
           Respond(p, o)
    \/ \E p \in Callers : TimerFires(p)
    \/ \E p \in Callers : DeliverNoting(p)
    \/ \E d \in RevisitSteps : TickBetween(d)

SpecRepeat == InitRevisit /\ [][NextRepeat]_vars

\* ------------------------------------------------ the waits between attempts
\* new HttpClient({retries}) with a budget of 1 to MaxBudget attempts
InitBackoff ==
    /\ now = 0
    /\ ticks = 0
    /\ cache = <<>>
    /\ retries \in 1..MaxBudget
    /\ creds = FALSE
    /\ world = NoWorld
    /\ procs = [p \in Procs |-> IdleProc]
    /\ lastSet = <<>>
    /\ invalidated = {}
    /\ delivered = <<>>

NextBackoff ==
    \/ \E p \in Callers, u \in PlainUrls : CallFetch(p, u, NoOptions)
    \/ \E p \in Callers, o \in FailureOutcomes \cup {Response(200, NoHeader, b) : b \in PlainBodies} :
           Respond(p, o)
    \/ \E p \in Callers : TimerFires(p)

SpecBackoff == InitBackoff /\ [][NextBackoff]_vars

\* ------------------------------------------------------------ claims C1-C5
\* C1: a fetch called without skipCache while the cache holds an unexpired
\* entry for the url returns that entry's text, with no network attempt and no wait
C1_CacheHitNoNetwork ==
    \A p \in Procs :
        (procs[p].op = "fetch" /\ ~procs[p].f.skipCache /\ procs[p].preFresh) =>
            /\ procs[p].f.st = "returned"
            /\ procs[p].f.value = procs[p].pre
            /\ procs[p].f.net = 0
            /\ procs[p].f.waits = 0

\* a cache hit at the very instant the entry expires (now = expiresAt)
C1_Witness ==
    \E p \in Procs :
        /\ procs[p].op = "fetch" /\ ~procs[p].f.skipCache /\ procs[p].preFresh
        /\ procs[p].f.st = "returned"
        /\ procs[p].f.url \in DOMAIN cache
        /\ cache[procs[p].f.url].expiresAt = now

\* C2: every fetch call ends, returning or raising, after at most retries
\* network attempts and at most retries - 1 waits
C2_FetchTerminatesBounded ==
    /\ [](\A p \in Procs : /\ procs[p].f.net <= retries
                           /\ procs[p].f.waits <= retries - 1
                           /\ procs[p].f.waits <= procs[p].f.net)
    /\ \A p \in Callers : (procs[p].pc = "fetch") ~> (procs[p].pc = "done")

\* a fetch that used its whole budget: retries attempts, retries - 1 waits
C2_Witness ==
    \E p \in Procs :
        /\ retries >= 2
        /\ Settled(procs[p].f)
        /\ procs[p].f.net = retries
        /\ procs[p].f.waits = retries - 1

\* C3: a 404 answer or a deadline abort on any attempt ends the fetch at once
\* with that NotFound or Timeout error: no wait follows and no further attempt
C3_NotFoundTimeoutNoRetry ==
    \A p \in Procs :
        LET q == procs[p] IN
        /\ (q.lastOutcome.type = "response" /\ q.lastOutcome.status = 404) =>
               /\ q.f.st = "threw" /\ q.f.err = NotFoundError
               /\ q.f.net = q.f.attempt /\ q.f.waits = q.f.attempt - 1
        /\ q.lastOutcome.type = "abort" =>
               /\ q.f.st = "threw" /\ q.f.err = TimeoutError
               /\ q.f.net = q.f.attempt /\ q.f.waits = q.f.attempt - 1

\* a deadline abort on a first attempt with retry budget left
C3_Witness ==
    \E p \in Procs :
        /\ procs[p].lastOutcome.type = "abort"
        /\ procs[p].f.st = "threw"
        /\ procs[p].f.attempt = 1
        /\ retries >= 2

Retryable(o) ==
    \/ o.type = "network_error"
    \/ o.type = "response" /\ o.status \in {429, 500, 503}

\* the fetch of p has failed on its last allowed attempt with a retryable failure
BudgetExhausted(p) ==
    /\ procs[p].f.st = "threw"
    /\ procs[p].f.net = retries
    /\ Retryable(procs[p].lastOutcome)

\* C4 as stated: whenever the last allowed attempt fails with a retryable
\* failure (rate-limited included), fetch raises the aggregate error whose
\* cause is the last attempt's error
C4_AggregateOnExhaustion ==
    \A p \in Procs :
        BudgetExhausted(p) =>
            /\ procs[p].f.err.message = "Failed after attempts"
            /\ procs[p].f.err.cause = doFetch(procs[p].lastOutcome).err

\* C4 amended: the aggregate error wrapping the last attempt's error is raised
\* when the last allowed attempt fails with a transient, server or network
\* error; when it is rate-limited (429) that RateLimitError itself is raised
C4_AggregateUnlessRateLimited ==
    \A p \in Procs :
        BudgetExhausted(p) =>
            IF procs[p].lastOutcome.status = 429
            THEN procs[p].f.err = doFetch(procs[p].lastOutcome).err
            ELSE /\ procs[p].f.err.name = "HttpClientError"
                 /\ procs[p].f.err.message = "Failed after attempts"
                 /\ procs[p].f.err.cause = doFetch(procs[p].lastOutcome).err

\* the budget runs out on a 503 after an earlier, different failure
C4_Witness ==
    \E p \in Procs :
        /\ BudgetExhausted(p)
        /\ retries >= 2
        /\ procs[p].lastOutcome.status = 503
        /\ procs[p].f.err.message = "Failed after attempts"

AllDigits(s) == Len(s) > 0 /\ \A i \in 1..Len(s) : s[i] \in Digits

\* the number a string of decimal digits denotes
RECURSIVE Decimal(_)
Decimal(s) ==
    IF Len(s) = 0 THEN 0
    ELSE 10 * Decimal(SubSeq(s, 1, Len(s) - 1)) + DigitValue(s[Len(s)])

\* C5: a 429 answer to the final allowed attempt makes fetch raise a
\* RateLimitError carrying the numeric Retry-After value of that answer; with
\* retries = 1 that is after exactly one attempt and without a wait
C5_RateLimitErrorOnLastAttempt ==
    \A p \in Procs :
        LET q == procs[p] IN
        (q.lastOutcome.status = 429 /\ q.f.net = retries /\ q.f.st # "inflight") =>
            /\ q.f.st = "threw"
            /\ q.f.err.name = "RateLimitError"
            /\ AllDigits(q.lastOutcome.header) =>
                   q.f.err.retryAfter = Decimal(q.lastOutcome.header)
            /\ retries = 1 => (q.f.net = 1 /\ q.f.waits = 0)

\* with retries = 1, a 429 with a two-digit Retry-After has been raised
C5_Witness ==
    \E p \in Procs :
        /\ retries = 1
        /\ procs[p].lastOutcome.status = 429
        /\ procs[p].lastOutcome.header = <<"1", "0">>
        /\ procs[p].f.st = "threw"
        /\ procs[p].f.err.retryAfter = 10


\* ----------------------------------------------------------- claims C6-C10
LookupOps == {"handleGetTaskReference", "handleGetTaskReferenceDocsOnly"}

\* s is a non-empty run of name characters, "@", a non-empty run of digits
WellFormed(s) ==
    \E k \in 2..(Len(s) - 1) :
        /\ s[k] = "@"
        /\ \A i \in 1..(k - 1) : s[i] \in NameChars
        /\ \A i \in (k + 1)..Len(s) : s[i] \in Digits

\* the index the documentation server publishes lists the identifier
Listed(taskName) == findInIndex(world.index, taskName) # NoStub

\* the inventory the API serves has a task of that name and major version
InInventory(taskName) ==
    /\ world.api.kind = "json"
    /\ \E i \in 1..Len(world.api.value) :
           toLowerCase(world.api.value[i].name) \o <<"@">>
               \o NatToString(world.api.value[i].version.major) = toLowerCase(taskName)

Last(s) == s[Len(s)]

C7_ValidatesIdentifier ==
    \A p \in Callers :
        LET q == procs[p]
            invalid == ErrorResult(InvalidFormat(q.arg), NoUrl)
        IN
        q.op \in LookupOps =>
            IF WellFormed(q.arg)
            THEN q.out # invalid /\ q.trace # <<>>
            ELSE /\ q.pc = "done" /\ q.out = invalid
                 /\ q.trace = <<>> /\ q.netUrls = {} /\ q.f = IdleFetch

\* an identifier that is well-formed up to a trailing line feed is refused
C7_Witness ==
    \E p \in Callers :
        LET q == procs[p] IN
        /\ q.op \in LookupOps /\ q.pc = "done"
        /\ q.arg = <<"A", "@", "1", "\n">>
        /\ q.out = ErrorResult(InvalidFormat(q.arg), NoUrl)
        /\ q.f = IdleFetch

\* the two kinds of not-found result
NotFoundKind(out, taskName) ==
    /\ out.kind = "error" /\ out.url = NoUrl
    /\ out.error \in {<<"Task '", taskName, "' not found in public index or organization.">>,
                      <<"Task '", taskName,
                        "' not found. Use search_pipeline_tasks to find available tasks.">>}

NoDocumentKind(out, taskName) ==
    /\ out.kind = "error" /\ out.url # NoUrl
    /\ out.error \in {<<"Documentation for task '", taskName,
                        "' not found in public docs or organization.">>,
                      <<"Documentation for task '", taskName, "' not found.">>}

\* the inventory has the identifier and the caller could read it: the
\* credentials are set and the inventory request did not fail
Obtainable(q) == creds /\ InInventory(q.arg) /\ "api" \notin q.failed

\* C8 as stated: when neither source gives a record the result is the
\* not-found kind exactly when the identifier is absent from the index and
\* from the inventory, and the no-documentation kind, with the document's
\* url, exactly when the index lists it and the fetch of its document failed.
C8_TwoNotFoundKinds ==
    \A p \in Callers :
        LET q == procs[p] IN
        (q.op \in LookupOps /\ q.pc = "done" /\ WellFormed(q.arg) /\ q.out.kind # "record") =>
            /\ NotFoundKind(q.out, q.arg) \/ NoDocumentKind(q.out, q.arg)
            /\ NotFoundKind(q.out, q.arg) <=> (~Listed(q.arg) /\ ~Obtainable(q))
            /\ NoDocumentKind(q.out, q.arg) <=>
                   /\ Listed(q.arg) /\ "doc" \in q.failed
                   /\ q.out.url = DocUrl(findInIndex(world.index, q.arg))

\* C9 as stated: handleGetTaskReference never rejects; whatever fails, it
\* resolves with a record or a structured error.
C9_NeverRejects ==
    \A p \in Callers :
        LET q == procs[p] IN
        (q.op \in LookupOps /\ q.pc = "done") => q.out.kind \in {"record", "error"}

\* C10 as stated: without credentials handleSearchPipelineTasks never throws,
\* sends no inventory request, and its result has source "public-docs",
\* whatever the fetch of the public index ends with.
C10_PublicDocsWithoutCredentials ==
    \A p \in Callers :
        LET q == procs[p] IN
        (q.op = "handleSearchPipelineTasks" /\ ~creds) =>
            /\ q.netUrls \subseteq {TASK_INDEX_URL}
            /\ q.pc = "done" => (q.out.kind = "result" /\ q.out.source = "public-docs")

\* ---------------------------------------------------------- claims C11-C20
\* the inventory listing succeeded: the credentials are set, the fetch of the
\* listing did not throw and its body is JSON
ListingSucceeded(q) == creds /\ "api" \notin q.failed /\ world.api.kind = "json"

\* C11 as stated: with credentials set, when the fetch of the inventory
\* listing fails after its retries, handleSearchPipelineTasks does not
\* propagate the error, fetches the public index next, and returns a
\* non-error result with source "public-docs".
C11_ListingFailureFallsBack ==
    \A p \in Callers :
        LET q == procs[p] IN
        (q.op = "handleSearchPipelineTasks" /\ creds /\ "api" \in q.failed) =>
            /\ q.trace = <<"api", "index">>
            /\ q.pc = "done" => (q.out.kind = "result" /\ q.out.source = "public-docs")

CategoryAt(lines, i) ==
    LET hs == {k \in 1..(i - 1) : lines[k].t = "h2"} IN
    IF hs = {} THEN null
    ELSE CATEGORY_MAPPING(HeadingLower(lines[CHOOSE k \in hs : \A j \in hs : j <= k].text))

\* the places <<line, link>> of lines where a task link stands under a category
Occurrences(lines) ==
    UNION {{<<i, j>> : j \in 1..Len(lines[i].links)} :
              i \in {k \in 1..Len(lines) : lines[k].t = "row" /\ CategoryAt(lines, k) # null}}

Before(o1, o2) == o1[1] < o2[1] \/ (o1[1] = o2[1] /\ o1[2] < o2[2])

KeyAt(lines, o) == <<lines[o[1]].links[o[2]].fullName, CategoryAt(lines, o[1])>>

\* the first place where the link name and category of stub stand
FirstOccurrence(lines, stub) ==
    CHOOSE o \in Occurrences(lines) :
        /\ KeyAt(lines, o) = <<stub.fullName, stub.category>>
        /\ \A o2 \in Occurrences(lines) :
               KeyAt(lines, o2) = KeyAt(lines, o) => (o2 = o \/ Before(o, o2))

\* C13: parseTaskIndex returns one stub for each distinct fullName and
\* category, however often headings and rows repeat; the stub is the first
\* occurrence in document order, with that occurrence's displayName,
\* description and documentationPath, and stubs are listed in the order of
\* their first occurrences.
C13_OneStubPerKeyFirstKept ==
    \A p \in Callers :
        LET q == procs[p]
            lines == q.arg.lines
            stubs == q.out.value
        IN
        (q.op = "parseTaskIndex" /\ q.pc = "done") =>
            /\ \A i, j \in 1..Len(stubs) :
                   (stubs[i].fullName = stubs[j].fullName
                    /\ stubs[i].category = stubs[j].category) => i = j
            /\ {<<stubs[i].fullName, stubs[i].category>> : i \in 1..Len(stubs)}
                   = {KeyAt(lines, o) : o \in Occurrences(lines)}
            /\ \A i \in 1..Len(stubs) :
                   LET o == FirstOccurrence(lines, stubs[i]) IN
                   /\ stubs[i].displayName = lines[o[1]].displayName
                   /\ stubs[i].description = lines[o[1]].description
                   /\ stubs[i].documentationPath = lines[o[1]].links[o[2]].path
            /\ \A i, j \in 1..Len(stubs) :
                   i < j => Before(FirstOccurrence(lines, stubs[i]),
                                   FirstOccurrence(lines, stubs[j]))

\* a heading and a row both stand twice, the two rows differ, and the link
\* they share gave one stub, that of the first row
C13_Witness ==
    \E p \in Callers :
        LET q == procs[p] IN
        /\ q.op = "parseTaskIndex" /\ q.pc = "done"
        /\ q.arg.lines = <<Heading("Build tasks"),
                           Row(<<"T">>, <<"b">>, <<Link(<<"A", "@", "1">>, "a-v1.md")>>),
                           Heading("Build tasks"),
                           Row(<<"U">>, <<"c">>,
                               <<Link(<<"A", "@", "1">>, "a2.md"), Link(<<"B", "@", "2">>, "b-v2.md"),
                                 Link(<<"A", "@", "1">>, "a3.md")>>)>>
        /\ Len(q.out.value) = 2
        /\ q.out.value[1].documentationPath = "a-v1.md"
        /\ q.out.value[2].fullName = <<"B", "@", "2">>

\* the heading texts, lower-cased, that name a category
RecognisedHeadings ==
    {"build tasks", "deploy tasks", "package tasks", "test tasks", "tool tasks",
     "utility tasks", "build", "deploy", "package", "test", "tool", "utility"}

\* line i is a task row and the last heading before it names a category
RowUnderCategory(lines, i) ==
    /\ lines[i].t = "row"
    /\ \E k \in 1..(i - 1) :
           /\ lines[k].t = "h2" /\ HeadingLower(lines[k].text) \in RecognisedHeadings
           /\ \A j \in (k + 1)..(i - 1) : lines[j].t # "h2"

\* C14 as stated: parseTaskIndex never raises, and for the empty document
\* and any document with no recognised category heading or no task row under
\* one it returns the empty list.
C14_EmptyWithoutStructure ==
    \A p \in Callers :
        LET q == procs[p] IN
        (q.op = "parseTaskIndex" /\ q.pc = "done") =>
            /\ q.out.kind = "list"
            /\ (\A i \in 1..Len(q.arg.lines) : ~RowUnderCategory(q.arg.lines, i)) =>
                   q.out.value = <<>>

\* t is a substring of s
Within(t, s) ==
    \E i \in 0..(Len(s) - Len(t)) : \A k \in 1..Len(t) : s[i + k] = t[k]

\* task passes the filter of query and category
Passes(task, query, category) ==
    /\ category = "undefined" \/ task.category = category
    /\ \E field \in {task.name, task.displayName, task.description, task.fullName} :
           Within(toLowerCase(query), toLowerCase(field))

\* C15: searchTasks returns exactly the tasks, in input order, of the given
\* category (any, if none is given) whose lower-cased name, displayName,
\* description or fullName contains the lower-cased query; a task of another
\* category is never returned.
C15_SearchTasksFilter ==
    \A p \in Callers :
        LET q == procs[p]
            tasks == q.pre.value
            found == q.out.value
            keep == {i \in 1..Len(tasks) : Passes(tasks[i], q.arg, q.category)}
        IN
        (q.op = "searchTasks" /\ q.pc = "done") =>
            /\ Len(found) = Cardinality(keep)
            /\ \A k \in 1..Len(found) :
                   found[k] = tasks[CHOOSE i \in keep : Cardinality({j \in keep : j < i}) = k - 1]
            /\ \A k \in 1..Len(found) :
                   q.category # "undefined" => found[k].category = q.category

\* the query matches three tasks in three different fields and in another
\* case; the one of another category is left out and the order is kept
C15_Witness ==
    \E p \in Callers :
        LET q == procs[p] IN
        /\ q.op = "searchTasks" /\ q.pc = "done"
        /\ q.arg = <<"A", "B">> /\ q.category = "build"
        /\ q.pre.value = <<PipelineTask(<<"d">>, <<"x">>, <<"1">>, <<"A", "B">>, "build"),
                           PipelineTask(<<"c">>, <<"a", "B">>, <<"2">>, <<"y">>, "utility"),
                           PipelineTask(<<"A", "b">>, <<"X">>, <<"1">>, <<"y">>, "build")>>
        /\ Len(q.out.value) = 2
        /\ q.out.value[1].name = <<"d">> /\ q.out.value[2].name = <<"A", "b">>

\* the entry last set for key (and not deleted since) is live at the current time
Live(key) ==
    /\ key \in DOMAIN lastSet
    /\ now <= lastSet[key].at + TtlOrDefault(lastSet[key].ttlMs)

\* C16: get(key) returns the value last set for key exactly while the time is
\* not later than the time of the set plus its ttl (the ttl given to set, the
\* default ttl when none was given) and undefined after that; has(key) is true
\* exactly when get(key) would return a value
C16_GetUntilTtlElapsed ==
    [][\A p \in Callers, key \in CacheKeys :
          /\ CacheGet(p, key) =>
                 procs'[p].out.value = IF Live(key) THEN lastSet[key].data ELSE NoBody
          /\ CacheHas(p, key) => (procs'[p].out.value <=> Live(key))]_vars

\* a get at the last live instant of an entry set without a ttl returned its value
C16_Witness ==
    \E p \in Callers :
        /\ procs[p].op = "cache.get"
        /\ procs[p].arg \in DOMAIN lastSet
        /\ lastSet[procs[p].arg].ttlMs = undefined
        /\ procs[p].out.at = lastSet[procs[p].arg].at + DEFAULT_TTL_MS
        /\ procs[p].out.value = lastSet[procs[p].arg].data

\* C17: a fetch called with skipCache sends a network request even when the
\* cache holds an unexpired entry for the url; when it returns, it returns the
\* text of the response to its own request, and the cache holds that text for
\* the url in place of what it held before
C17_SkipCacheAlwaysFetches ==
    \A p \in Procs :
        LET q == procs[p] IN
        (q.op = "fetch" /\ q.f.skipCache) =>
            /\ q.f.net >= 1
            /\ q.f.st = "returned" =>
                   /\ q.lastOutcome.type = "response"
                   /\ q.f.value = q.lastOutcome.body
                   /\ q.f.url \in DOMAIN cache
                   /\ cache[q.f.url].data = q.f.value

\* a skipCache fetch called over an unexpired entry returned a different text
\* and left that text in the cache
C17_Witness ==
    \E p \in Procs :
        LET q == procs[p] IN
        /\ q.op = "fetch" /\ q.f.skipCache /\ q.preFresh
        /\ q.f.st = "returned"
        /\ q.f.value # q.pre
        /\ cache[q.f.url].data = q.f.value

\* C18: the first fetch(url) called after invalidateCache(url) or clearCache()
\* sends a network request, and what it returns is the text of the response
\* to its own request
C18_FetchAfterInvalidateGoesToNetwork ==
    \A p \in Procs :
        LET q == procs[p] IN
        (q.op = "fetch" /\ q.afterInvalidate) =>
            /\ q.f.net >= 1
            /\ q.f.st = "returned" =>
                   /\ q.lastOutcome.type = "response"
                   /\ q.f.value = q.lastOutcome.body

\* the folder PUT of caller record q was answered with a failure status other than 409
PutFailedOtherThan409(q) ==
    /\ q.lastOutcome.type = "response"
    /\ ~(200 <= q.lastOutcome.status /\ q.lastOutcome.status <= 299)
    /\ q.lastOutcome.status # 409

\* C19: createPipeline with a folder, and createDummyPipeline, send the
\* pipeline POST only after the folder PUT was answered with success or with
\* 409 Conflict; a PUT that fails with another status makes the operation
\* raise and no POST is sent
C19_PostOnlyAfterFolderOr409 ==
    \A p \in Procs :
        LET q == procs[p] IN
        (q.op \in {"createPipeline", "createDummyPipeline"} /\ q.arg # NoFolder) =>
            /\ (q.pc = "POST" \/ "POST" \in Range(q.trace)) =>
                   /\ q.trace = <<"PUT", "POST">>
                   /\ q.lastOutcome.type = "response"
                   /\ ~PutFailedOtherThan409(q)
            /\ PutFailedOtherThan409(q) =>
                   /\ q.pc = "done" /\ q.out.kind = "rejected"
                   /\ "POST" \notin Range(q.trace)

\* C20: of two fetch calls for the same url that overlap in time, a call that
\* found no unexpired entry sends its own network request; what it returns is
\* the text of the response to its own request, it raises only after a failed
\* answer to its own request, and while it waits its answer and its retry
\* timer can arrive whatever the other call is doing
C20_OverlappingCallsIndependent ==
    \A p \in Procs :
        LET q == procs[p] IN
        (q.op = "fetch" /\ q.overlapped /\ ~q.preFresh) =>
            /\ q.f.net >= 1
            /\ q.f.st = "returned" =>
                   /\ q.lastOutcome.type = "response"
                   /\ q.f.value = q.lastOutcome.body
            /\ q.f.st = "threw" => ~doFetch(q.lastOutcome).ok
            /\ q.f.st = "inflight" => \A o \in OverlapOutcomes : ENABLED Respond(p, o)
            /\ q.f.st = "waiting" => ENABLED TimerFires(p)

\* two overlapping calls for an url that was not cached have each returned
\* the text of its own response, and the two texts differ
C20_Witness ==
    /\ \A p \in Procs :
           /\ procs[p].op = "fetch" /\ procs[p].overlapped /\ ~procs[p].preFresh
           /\ ~procs[p].f.skipCache
           /\ procs[p].f.st = "returned" /\ procs[p].f.net = 1
    /\ procs["p1"].f.url = procs["p2"].f.url
    /\ procs["p1"].f.value # procs["p2"].f.value

\* ----------------------------------------------------------- claims C21-C30
\* the answer is a server error or a network failure: neither 404, 429 nor an abort
TransientFailure(o) ==
    \/ o.type = "network_error"
    \/ o.type = "response" /\ o.status \in {500, 503}

\* C21: after a transient, server or network failure on attempt k < retries
\* the fetch waits retryDelay * 2^(k-1) ms before attempt k+1; the failure of
\* the last allowed attempt is followed by no wait: the fetch raises at once
C21_ExponentialBackoff ==
    \A p \in Procs :
        LET q == procs[p] IN
        (q.op = "fetch" /\ TransientFailure(q.lastOutcome)) =>
            /\ q.f.st = "waiting" =>
                   /\ q.f.attempt < retries
                   /\ q.f.waits = q.f.attempt
                   /\ q.f.delay = DEFAULT_RETRY_DELAY * 2^(q.f.attempt - 1)
            /\ q.f.st = "threw" =>
                   /\ q.f.net = retries
                   /\ q.f.waits = retries - 1

\* the fetch waits 4000 ms after its third attempt met a server error
C21_Witness ==
    \E p \in Procs :
        /\ procs[p].op = "fetch" /\ procs[p].lastOutcome.status = 503
        /\ procs[p].f.st = "waiting"
        /\ procs[p].f.attempt = 3
        /\ procs[p].f.delay = 4 * DEFAULT_RETRY_DELAY

\* C22: after a 429 that advertises a non-negative integer number of seconds
\* in Retry-After on attempt k < retries, the fetch waits exactly that number
\* of seconds (x 1000 ms) before the next attempt
C22_WaitsAdvertisedDelay ==
    \A p \in Procs :
        LET q == procs[p] IN
        (/\ q.op = "fetch" /\ q.lastOutcome.status = 429
         /\ AllDigits(q.lastOutcome.header)
         /\ q.f.st = "waiting") =>
            q.f.delay = Decimal(q.lastOutcome.header) * 1000

\* C23 as stated: after a 429 without Retry-After on attempt k < retries the
\* fetch waits a default delay that doubles from one attempt to the next
\* (the delay after attempt 1 being retryDelay * 2) and then retries
C23_DefaultDelayDoubles ==
    \A p \in Procs :
        LET q == procs[p] IN
        (/\ q.op = "fetch" /\ q.lastOutcome.status = 429
         /\ q.lastOutcome.header = NoHeader
         /\ q.f.st = "waiting") =>
            /\ q.f.attempt < retries
            /\ q.f.delay = 2 * DEFAULT_RETRY_DELAY * 2^(q.f.attempt - 1)

\* C23 amended: after a 429 without Retry-After on attempt k < retries the
\* fetch waits retryDelay * k * 2 ms, a delay that grows by 2 * retryDelay
\* with every attempt, and then retries
C23_DefaultDelayLinear ==
    \A p \in Procs :
        LET q == procs[p] IN
        (/\ q.op = "fetch" /\ q.lastOutcome.status = 429
         /\ q.lastOutcome.header = NoHeader
         /\ q.f.st = "waiting") =>
            /\ q.f.attempt < retries
            /\ q.f.waits = q.f.attempt
            /\ q.f.delay = DEFAULT_RETRY_DELAY * q.f.attempt * 2

\* the fetch waits 6000 ms after its third attempt was rate-limited without
\* an advertised delay
C23_Witness ==
    \E p \in Procs :
        /\ procs[p].op = "fetch" /\ procs[p].lastOutcome.status = 429
        /\ procs[p].lastOutcome.header = NoHeader
        /\ procs[p].f.st = "waiting"
        /\ procs[p].f.attempt = 3
        /\ procs[p].f.delay = 6 * DEFAULT_RETRY_DELAY

\* a response with a text
GoodResponses ==
    {Response(200, NoHeader, b) : b \in IndexBodies \cup DocBodies \cup PlainBodies}

\* the ttl the entry of caller record q's request is to be stored with: for a
\* direct fetch the override of the call or else the client's ttl, in a lookup
\* one hour for the index and 24 hours for the task document
ExpectedTtl(q) ==
    IF q.op = "fetch"
    THEN IF q.f.cacheTtlMs # undefined THEN q.f.cacheTtlMs ELSE DEFAULT_CACHE_TTL_MS
    ELSE IF q.f.url = TASK_INDEX_URL THEN 60 * 60 * 1000
    ELSE 24 * 60 * 60 * 1000

\* C24: when a network request of a fetch is answered with a text, the cache
\* afterwards holds for the url exactly that text with expiry = the time of
\* storing + the ttl of the call (the override if one was given, else the
\* client's ttl), whatever it held before; the task document is stored for 24
\* hours and the index for the client's default of one hour
C24_StoresUnderTtl ==
    [][\A p \in Callers, o \in GoodResponses :
          Respond(p, o) =>
              /\ procs[p].f.url \in DOMAIN cache'
              /\ cache'[procs[p].f.url] =
                     [data |-> o.body, expiresAt |-> now + ExpectedTtl(procs[p])]]_vars

\* the entry of the task document expires 24 hours after it was stored while
\* the index entry beside it, stored earlier, expires after one hour
C24_Witness ==
    /\ TASK_INDEX_URL \in DOMAIN cache
    /\ \E u \in DOMAIN cache :
           /\ u # TASK_INDEX_URL /\ u.base = TASK_REFERENCE_BASE_URL
           /\ cache[u].expiresAt = now + TASK_REFERENCE_CACHE_TTL_MS
           /\ cache[TASK_INDEX_URL].expiresAt < now + DEFAULT_CACHE_TTL_MS
           /\ now > 0

\* C25: an entry leaves the map only by a get or has of its own key after it
\* has expired (or by delete and clear); such a read does remove it; set, the
\* reads of other keys, size and the passage of time remove nothing, and size
\* counts the expired entries that are still in the map
C25_LazyEviction ==
    [][/\ \A key \in DOMAIN cache :
              /\ key \notin DOMAIN cache' =>
                     \/ /\ Expired(cache[key])
                        /\ \E p \in Callers : CacheGet(p, key) \/ CacheHas(p, key)
                     \/ \E p \in Callers : CacheDelete(p, key) \/ CacheClear(p)
              /\ (Expired(cache[key]) /\ \E p \in Callers : CacheGet(p, key) \/ CacheHas(p, key))
                     => key \notin DOMAIN cache'
       /\ \A p \in Callers :
              CacheSize(p) => procs'[p].out.value = Cardinality(DOMAIN cache)]_vars

\* size has just counted two entries of which one has expired
C25_Witness ==
    \E p \in Callers :
        /\ procs[p].op = "cache.size"
        /\ procs[p].out.at = now
        /\ procs[p].out.value = 2
        /\ \E key \in DOMAIN cache : Expired(cache[key])

\* the category the table gives the last heading before line i, when that
\* heading is one the table holds
TableCategoryAt(lines, i) ==
    LET hs == {k \in 1..(i - 1) : lines[k].t = "h2"}
        last == CHOOSE k \in hs : \A j \in hs : j <= k
    IN  CATEGORY_MAPPING(HeadingLower(lines[last].text))

\* C26: in parseTaskIndex's line scan a row yields stubs only if the most
\* recent level-2 heading before it is found, case-insensitively, in the
\* category table; a heading that is not in the table clears the current
\* category, so the rows up to the next recognised heading yield nothing; and
\* every stub carries the category of the most recent recognised heading.
C26_RowsOnlyUnderTableHeadings ==
    \A p \in Callers :
        LET q == procs[p]
            lines == q.arg.lines
            stubs == q.out.value
        IN
        (q.op = "parseTaskIndex" /\ q.pc = "done") =>
            \A s \in 1..Len(stubs) :
                \E i \in 1..Len(lines) :
                    /\ RowUnderCategory(lines, i)
                    /\ \E j \in 1..Len(lines[i].links) :
                           lines[i].links[j].fullName = stubs[s].fullName
                    /\ stubs[s].category = TableCategoryAt(lines, i)

\* line i of the document stands in a variant after the first
InLaterVariant(markdown, i) ==
    Cardinality({k \in 1..i : markdown[k] = ":::moniker range"}) > 1

\* C27: parseSyntax only ever returns code from the first, most current,
\* variant of the syntax region: whatever the arrangement of variants and
\* fenced code blocks inside the region, code from a later variant is never
\* returned.
C27_NeverLaterVariant ==
    \A p \in Callers :
        LET q == procs[p] IN
        (q.op = "parseSyntax" /\ q.pc = "done" /\ q.out.kind = "text") =>
            \A n \in 1..Len(q.out.value) :
                \A i \in 1..Len(q.arg) :
                    (q.arg[i] = q.out.value[n] /\ q.arg[i] # "") => ~InLaterVariant(q.arg, i)

\* the cache without the entry of key
Without(c, key) == [k \in DOMAIN c \ {key} |-> c[k]]

\* C28: a fetch that ends in an error of any class writes nothing to the
\* cache. In every step of a fetch other than the one that returns a text
\* the cache stays as it was, but for the expired entry of the fetch's own url
\* that the lookup at the call removes; with skipCache there is no lookup and
\* the entry, expired or not, stays.
C28_FailedFetchWritesNothing ==
    [][\A p \in Callers :
           (procs'[p].f # procs[p].f /\ procs'[p].f.st # "returned") =>
               LET f == procs'[p].f IN
               \/ cache' = cache
               \/ /\ procs[p].f.st \in {"idle", "returned", "threw"}
                  /\ ~f.skipCache
                  /\ f.url \in DOMAIN cache
                  /\ Expired(cache[f.url])
                  /\ cache' = Without(cache, f.url)]_vars

\* a fetch with skipCache has failed after a request, and the expired entry of
\* its url is still in the cache
C28_Witness ==
    \E p \in Callers :
        LET f == procs[p].f IN
        /\ procs[p].op = "fetch" /\ f.st = "threw" /\ f.net >= 1
        /\ f.skipCache
        /\ f.url \in DOMAIN cache /\ Expired(cache[f.url])
        /\ cache[f.url].data = procs[p].pre

\* caller p's request is answered with a text in this step
Completes(p) == procs[p].f.st = "inflight" /\ procs'[p].f.st = "returned"

\* C29: the cache entry of a url is written at the completion of each
\* successful network request. The step in which a request is answered with a
\* text leaves that text as the url's entry, whatever other call of the url is
\* in flight or has returned and whether or not the url was invalidated since
\* the call; and no other step writes an entry. So of overlapping fetches the
\* entry left is that of the request that completed last, and a fetch in
\* flight over invalidateCache or clearCache creates the entry again.
C29_EntryOfLastCompletion ==
    [][/\ \A p \in Procs :
              Completes(p) =>
                  LET f == procs'[p].f IN
                  /\ f.value = procs'[p].lastOutcome.body
                  /\ f.url \in DOMAIN cache'
                  /\ cache'[f.url] = [data |-> f.value, expiresAt |-> now + StoreTtl(f)]
       /\ \A u \in DOMAIN cache' :
              (u \notin DOMAIN cache \/ cache'[u] # cache[u]) =>
                  \E p \in Procs : Completes(p) /\ procs'[p].f.url = u]_vars

\* p1 called first and p2 while p1 was awaiting; the url was invalidated while
\* both were in flight; p2 was answered first and p1 last, and the entry is
\* there again with p1's text
C29_Witness ==
    LET q1 == procs["p1"]
        q2 == procs["p2"]
    IN  /\ q1.op = "fetch" /\ q2.op = "fetch"
        /\ q1.f.url = q2.f.url
        /\ q1.overlapped /\ ~q1.joined /\ q2.joined
        /\ q1.f.st = "returned" /\ q2.f.st = "returned"
        /\ q1.f.net = 1 /\ q2.f.net = 1
        /\ q1.f.value # q2.f.value
        /\ q1.f.url \in invalidated
        /\ q1.f.url \in DOMAIN cache
        /\ cache[q1.f.url].data = q1.f.value

DocsOnlyLookup == "handleGetTaskReferenceDocsOnly"

StoredWithin(url, ttl) ==
    /\ url \in DOMAIN cache
    /\ now - (cache[url].expiresAt - ttl) <= ttl

====
